---------------------------- MODULE Spec2Model ----------------------------
(***************************************************************************)
(* Model of the Excel transfer tool: the text/number normalizers           *)
(* (parsers.py, excel_layout.py), the section parser (parsers.py), the     *)
(* week-block engine (actions/report_to_cost.py), the cumulative engine    *)
(* (actions/cost_to_ppc.py) and the older week-block pipeline              *)
(* (transfer.py).                                                          *)
(*                                                                         *)
(* Representation.  A Python string is a sequence of one-character         *)
(* strings.  A cell value is a record [t, n, e, s]: t is the Python type   *)
(* ("none", "int", "float", "str"), n/e hold a number as the exact decimal *)
(* n / 10^e (floats are modelled as exact decimals, no rounding), s holds  *)
(* the characters of a string.  A worksheet is a record [title, cells]     *)
(* where cells maps <<row, column>> to a value; an absent cell reads None. *)
(***************************************************************************)
EXTENDS Integers, Sequences, FiniteSets, TLC

VARIABLES
    variant,   \* which engine the session runs: "r2c", "c2p", "legacy" ("none" in the function specs)
    src,       \* the source worksheet
    tgts,      \* the target worksheets (one for r2c/legacy, one or more for c2p)
    cfg,       \* the configuration toggles of the action object / TransferSettings
    diffs,     \* the diff list returned by the most recent analyze / transfer_week
    summary,   \* the counters returned by the most recent call
    phase,     \* "Idle", "Analyzed", "Executed"
    pre,       \* history: src, tgts, diffs, summary and phase as they were when the last call started
    lastOp,    \* history: the last call, "" before the first
    fn,        \* function specs: name of the function applied ("" before); shell: position in the request handler
    arg,       \* function specs: the input; shell: the uploads and buttons of the request
    out        \* function specs: the result; shell: what analyze returned and the target it left

vars == <<variant, src, tgts, cfg, diffs, summary, phase, pre, lastOp, fn, arg, out>>

engineVars == <<variant, src, tgts, cfg, diffs, summary, phase, pre, lastOp>>

fnVars == <<fn, arg, out>>

-----------------------------------------------------------------------------
(* Characters *)

UpperSeq == <<"A","B","C","D","E","F","G","H","I","J","K","L","M",
              "N","O","P","Q","R","S","T","U","V","W","X","Y","Z">>
LowerSeq == <<"a","b","c","d","e","f","g","h","i","j","k","l","m",
              "n","o","p","q","r","s","t","u","v","w","x","y","z">>
DigitSeq == <<"0","1","2","3","4","5","6","7","8","9">>

Range(f) == {f[i] : i \in DOMAIN f}

\* a local variable: v is evaluated once and F applied to its value
Bind(v, F(_)) == CHOOSE r \in {F(x) : x \in {v}} : TRUE

UpperChars == Range(UpperSeq)
LowerChars == Range(LowerSeq)
DigitChars == Range(DigitSeq)
WhiteChars == {" ", "\t", "\n"}

IsSpaceChar(c) == c \in WhiteChars

\* str.lower() / str.casefold() on one (ASCII) character
LowerChar(c) ==
    IF c \in UpperChars
    THEN LowerSeq[CHOOSE i \in DOMAIN UpperSeq : UpperSeq[i] = c]
    ELSE c

DigitVal(c) == (CHOOSE i \in DOMAIN DigitSeq : DigitSeq[i] = c) - 1

RECURSIVE MapLower(_)
MapLower(s) == IF s = <<>> THEN <<>> ELSE <<LowerChar(Head(s))>> \o MapLower(Tail(s))

RECURSIVE LStrip(_)
LStrip(s) == IF s # <<>> /\ IsSpaceChar(Head(s)) THEN LStrip(Tail(s)) ELSE s

RECURSIVE RStrip(_)
RStrip(s) ==
    IF s # <<>> /\ IsSpaceChar(s[Len(s)]) THEN RStrip(SubSeq(s, 1, Len(s) - 1)) ELSE s

\* str.strip()
Strip(s) == RStrip(LStrip(s))

\* re.sub(r'\s+', ' ', s): every maximal run of whitespace becomes one blank
RECURSIVE CollapseRuns(_)
CollapseRuns(s) ==
    IF s = <<>> THEN <<>>
    ELSE IF IsSpaceChar(Head(s))
         THEN <<" ">> \o CollapseRuns(LStrip(s))
         ELSE <<Head(s)>> \o CollapseRuns(Tail(s))

\* re.sub(r'\s+', ' ', s).strip(), which is also " ".join(s.split())
CollapseWs(s) == Strip(CollapseRuns(s))

\* s.replace(old, new) for a one-character old and a string new
RECURSIVE ReplaceChar(_, _, _)
ReplaceChar(s, old, new) ==
    IF s = <<>> THEN <<>>
    ELSE (IF Head(s) = old THEN new ELSE <<Head(s)>>) \o ReplaceChar(Tail(s), old, new)

Contains(s, c) == \E i \in DOMAIN s : s[i] = c

StartsWith(s, c) == s # <<>> /\ Head(s) = c

-----------------------------------------------------------------------------
(* Values *)

None == [t |-> "none", n |-> 0, e |-> 0, s |-> <<>>]
PyInt(n) == [t |-> "int", n |-> n, e |-> 0, s |-> <<>>]
PyStr(s) == [t |-> "str", n |-> 0, e |-> 0, s |-> s]

RECURSIVE Pow10(_)
Pow10(k) == IF k = 0 THEN 1 ELSE 10 * Pow10(k - 1)

\* the decimal n / 10^e in lowest terms of 10, as a float value
RECURSIVE PyFloat(_, _)
PyFloat(n, e) ==
    IF e > 0 /\ n % 10 = 0 THEN PyFloat(n \div 10, e - 1)
    ELSE [t |-> "float", n |-> n, e |-> e, s |-> <<>>]

IsNone(v) == v.t = "none"
IsNum(v) == v.t \in {"int", "float"}
IsStr(v) == v.t = "str"

Max(a, b) == IF a >= b THEN a ELSE b

Abs(n) == IF n < 0 THEN -n ELSE n

\* a Python float is an IEEE 754 double: a significand of 53 bits, the result
\* of an addition rounded to the nearest such value, ties to the even
\* significand.  The model keeps the rounding rule on a significand of
\* FloatBits bits; cell values and literals are drawn from values such a
\* float holds exactly.
FloatBits == 16

RECURSIVE Pow2(_)
Pow2(k) == IF k = 0 THEN 1 ELSE 2 * Pow2(k - 1)

RECURSIVE Pow5(_)
Pow5(k) == IF k = 0 THEN 1 ELSE 5 * Pow5(k - 1)

\* the least x' >= x with mag < limit * 2^(x' - x)
RECURSIVE ExpDown(_, _, _)
ExpDown(mag, limit, x) ==
    IF mag < limit THEN x ELSE ExpDown(mag, 2 * limit, x + 1)

\* the least y' >= y with scaled * 2^(y' - y) >= floor
RECURSIVE ExpUp(_, _, _)
ExpUp(scaled, floor, y) ==
    IF scaled >= floor THEN y ELSE ExpUp(2 * scaled, floor, y + 1)

\* num / den rounded to the nearest integer, ties to even
RoundHalfEven(num, den) ==
    LET q == num \div den
        r == num % den
    IN  IF 2 * r > den \/ (2 * r = den /\ q % 2 = 1) THEN q + 1 ELSE q

\* m / 2^y in lowest terms, as the pair of numerator and exponent
RECURSIVE LowestTerms(_, _)
LowestTerms(m, y) ==
    IF y > 0 /\ m % 2 = 0 THEN LowestTerms(m \div 2, y - 1) ELSE <<m, y>>

\* the float nearest to the decimal n / 10^e
RoundFloat(n, e) ==
    IF n = 0 THEN PyFloat(0, 0)
    ELSE LET mag == Abs(n)
             d   == Pow10(e)
             top == Pow2(FloatBits) * d
             x   == ExpDown(mag, top, 0)
             y   == IF x > 0 THEN 0 ELSE ExpUp(2 * mag, top, 0)
             m   == RoundHalfEven(mag * Pow2(y), d * Pow2(x))
             low == LowestTerms(m, y)
         IN  PyFloat((IF n < 0 THEN -1 ELSE 1) * low[1] * Pow2(x) * Pow5(low[2]), low[2])

\* the decimal a + b, not rounded
ExactSum(a, b) ==
    LET e == Max(a.e, b.e)
    IN  PyFloat(a.n * Pow10(e - a.e) + b.n * Pow10(e - b.e), e)

\* a + b on two numbers, the result a float
AddNum(a, b) ==
    LET exact == ExactSum(a, b)
    IN  RoundFloat(exact.n, exact.e)

\* Python truthiness of a cell value
Truthy(v) ==
    CASE v.t = "none" -> FALSE
      [] v.t = "str"  -> v.s # <<>>
      [] OTHER        -> v.n # 0

RECURSIVE NatDigits(_)
NatDigits(n) ==
    IF n < 10 THEN <<DigitSeq[n + 1]>>
    ELSE NatDigits(n \div 10) \o <<DigitSeq[(n % 10) + 1]>>

RECURSIVE PadLeft(_, _)
PadLeft(s, k) == IF Len(s) >= k THEN s ELSE PadLeft(<<"0">> \o s, k)

\* str(value)
StrOf(v) ==
    CASE v.t = "none"  -> <<"N","o","n","e">>
      [] v.t = "str"   -> v.s
      [] v.t = "int"   -> (IF v.n < 0 THEN <<"-">> ELSE <<>>) \o NatDigits(Abs(v.n))
      [] v.t = "float" ->
            LET ip == Abs(v.n) \div Pow10(v.e)
                fp == Abs(v.n) % Pow10(v.e)
            IN  (IF v.n < 0 THEN <<"-">> ELSE <<>>) \o NatDigits(ip) \o <<".">>
                \o (IF v.e = 0 THEN <<"0">> ELSE PadLeft(NatDigits(fp), v.e))


-----------------------------------------------------------------------------
(* Normalizer: numbers *)

RECURSIVE NatOfDigits(_, _)
NatOfDigits(s, acc) ==
    IF s = <<>> THEN acc ELSE NatOfDigits(Tail(s), 10 * acc + DigitVal(Head(s)))

\* float(text) on a string.  The literals modelled are [sign] digits [. digits]
\* and [sign] . digits; exponents, underscores, "inf" and "nan" are not, so
\* inputs are drawn from characters that cannot form them.  ok = FALSE is
\* ValueError.
FloatOfStr(text) ==
    LET s    == Strip(text)
        neg  == StartsWith(s, "-")
        body == IF StartsWith(s, "-") \/ StartsWith(s, "+") THEN Tail(s) ELSE s
        digs == SelectSeq(body, LAMBDA c : c \in DigitChars)
        dots == SelectSeq(body, LAMBDA c : c = ".")
        dot  == IF dots = <<>> THEN Len(body) + 1
                ELSE CHOOSE i \in DOMAIN body : body[i] = "."
        wellFormed == /\ Len(digs) + Len(dots) = Len(body)
                      /\ Len(dots) <= 1
                      /\ digs # <<>>
        mag  == NatOfDigits(digs, 0)
    IN  IF wellFormed
        THEN [ok |-> TRUE,
              v  |-> PyFloat(IF neg THEN -mag ELSE mag, Max(0, Len(body) - dot))]
        ELSE [ok |-> FALSE, v |-> None]

\* the outcome of a call that ends in an exception nobody catches
Raised(exc) == [t |-> "raise", n |-> 0, e |-> 0, s |-> exc]

OverflowError == <<"O","v","e","r","f","l","o","w","E","r","r","o","r">>

\* the int 10^400: an int has no largest value, a float has (about 1.8 * 10^308)
HugeInt == [t |-> "int", n |-> 1, e |-> -400, s |-> <<>>]

\* float(value) on a native int or float: OverflowError ("int too large to
\* convert to float") on an int beyond the range of a float
FloatOfNum(v) ==
    IF v.t = "int" /\ v.e < -308 THEN Raised(OverflowError) ELSE PyFloat(v.n, v.e)

\* excel_layout.parse_number
parse_number(value) ==
    IF IsNone(value) THEN None
    ELSE IF IsNum(value) THEN FloatOfNum(value)
    ELSE LET text   == Strip(StrOf(value))
             nosp   == ReplaceChar(text, " ", <<>>)
             fixed  == IF Contains(nosp, ",") /\ Contains(nosp, ".")
                       THEN ReplaceChar(nosp, ",", <<>>)
                       ELSE ReplaceChar(nosp, ",", <<".">>)
             parsed == FloatOfStr(fixed)
         IN  IF text = <<>> THEN None
             ELSE IF parsed.ok THEN parsed.v ELSE None

\* parsers.parse_number
parsers_parse_number(val) ==
    IF IsNone(val) THEN None
    ELSE IF IsNum(val) THEN FloatOfNum(val)
    ELSE LET s      == Strip(StrOf(val))
             nosp   == ReplaceChar(s, " ", <<>>)
             fixed  == ReplaceChar(nosp, ",", <<".">>)
             parsed == FloatOfStr(fixed)
         IN  IF s = <<>> THEN None
             ELSE IF parsed.ok THEN parsed.v ELSE None

-----------------------------------------------------------------------------
(* Normalizer: text *)

IsAlnumLower(c) == c \in LowerChars \/ c \in DigitChars

\* parsers.normalize_string
normalize_string(s) ==
    IF s = <<>> THEN <<>>
    ELSE LET low  == MapLower(s)
             kept == SelectSeq(low, LAMBDA c : IsAlnumLower(c) \/ IsSpaceChar(c))
         IN  CollapseWs(kept)

\* excel_layout.normalize_text
normalize_text(value) ==
    IF IsNone(value) THEN <<>>
    ELSE MapLower(CollapseWs(StrOf(value)))

\* re.sub(r"[^a-z0-9]+", " ", text): every maximal run of other characters
\* becomes one blank
RECURSIVE DropNonAlnum(_)
DropNonAlnum(s) == IF s # <<>> /\ ~IsAlnumLower(Head(s)) THEN DropNonAlnum(Tail(s)) ELSE s

RECURSIVE SubNonAlnum(_)
SubNonAlnum(s) ==
    IF s = <<>> THEN <<>>
    ELSE IF IsAlnumLower(Head(s))
         THEN <<Head(s)>> \o SubNonAlnum(Tail(s))
         ELSE <<" ">> \o SubNonAlnum(DropNonAlnum(s))

\* excel_layout.normalize_header
normalize_header(value) == CollapseWs(SubNonAlnum(normalize_text(value)))

-----------------------------------------------------------------------------
(* Worksheets *)

\* ws.cell(row=r, column=c).value
Cell(ws, r, c) == IF <<r, c>> \in DOMAIN ws.cells THEN ws.cells[<<r, c>>] ELSE None

\* ws.cell(row=r, column=c).value = v
SetCell(ws, r, c, v) == [ws EXCEPT !.cells = (<<r, c>> :> v) @@ ws.cells]

SetMax(S) == CHOOSE m \in S : \A x \in S : x <= m
SetMin(S) == CHOOSE m \in S : \A x \in S : m <= x

\* the elements of a finite set of integers in ascending order
RECURSIVE Ascending(_)
Ascending(S) == IF S = {} THEN <<>> ELSE <<SetMin(S)>> \o Ascending(S \ {SetMin(S)})

\* ws.max_row: the last row holding a cell, 1 on an empty sheet
max_row(ws) == IF DOMAIN ws.cells = {} THEN 1 ELSE SetMax({p[1] : p \in DOMAIN ws.cells})

\* the rows of the grid that hold a cell and every position of the grid
RowsOf(ws) == {p[1] : p \in DOMAIN ws.cells}

\* a formula cell as the engines test it: a string starting with '='
IsFormulaValue(v) == IsStr(v) /\ StartsWith(v.s, "=")

-----------------------------------------------------------------------------
(* SectionParser *)

NO_SECTION == <<"_","_","N","O","_","S","E","C","T","I","O","N","_","_">>

\* raw_key = str(key_cell.value) if key_cell.value else ""
RawKey(ws, r, key_col_idx) ==
    LET v == Cell(ws, r, key_col_idx) IN IF Truthy(v) THEN StrOf(v) ELSE <<>>

\* the loop over data_cols: some watched column holds a parseable number
HasNumber(ws, r, data_cols) ==
    \E col \in data_cols : ~IsNone(parsers_parse_number(Cell(ws, r, col)))

ParsedRow(row_idx, section, raw_key, key, values) ==
    [row_idx |-> row_idx, section |-> section, raw_key |-> raw_key,
     key |-> key, values |-> values]

\* variant of composite_key that files every row under the implicit section
composite_key_no_section(row) == <<NO_SECTION, row.key>>

composite_key(row) == <<row.section, row.key>>

\* variant of ParseFrom that keeps the header's raw key as the section label
RECURSIVE ParseFrom_raw_label(_, _, _, _, _, _, _)
ParseFrom_raw_label(ws, key_col_idx, r, current_section, data_cols, value_mapping, detect_sections) ==
    IF r > max_row(ws) THEN <<>>
    ELSE LET raw_key  == RawKey(ws, r, key_col_idx)
             key_norm == normalize_string(raw_key)
             is_section_header == detect_sections /\ ~HasNumber(ws, r, data_cols)
             row_values == [alias \in DOMAIN value_mapping |->
                               parsers_parse_number(Cell(ws, r, value_mapping[alias]))]
         IN  IF key_norm = <<>>
             THEN ParseFrom_raw_label(ws, key_col_idx, r + 1, current_section,
                                      data_cols, value_mapping, detect_sections)
             ELSE IF is_section_header
             THEN ParseFrom_raw_label(ws, key_col_idx, r + 1, raw_key,
                                      data_cols, value_mapping, detect_sections)
             ELSE <<ParsedRow(r, current_section, raw_key, key_norm, row_values)>>
                  \o ParseFrom_raw_label(ws, key_col_idx, r + 1, current_section,
                                         data_cols, value_mapping, detect_sections)

\* the body of the loop of SectionParser.parse from row r on, with the running
\* section label current_section
RECURSIVE ParseFrom(_, _, _, _, _, _, _)
ParseFrom(ws, key_col_idx, r, current_section, data_cols, value_mapping, detect_sections) ==
    IF r > max_row(ws) THEN <<>>
    ELSE LET raw_key  == RawKey(ws, r, key_col_idx)
             key_norm == normalize_string(raw_key)
             is_section_header == detect_sections /\ ~HasNumber(ws, r, data_cols)
             row_values == [alias \in DOMAIN value_mapping |->
                               parsers_parse_number(Cell(ws, r, value_mapping[alias]))]
         IN  IF key_norm = <<>>
             THEN ParseFrom(ws, key_col_idx, r + 1, current_section,
                            data_cols, value_mapping, detect_sections)
             ELSE IF is_section_header
             THEN Bind(CollapseWs(raw_key), LAMBDA label :
                      ParseFrom(ws, key_col_idx, r + 1, label,
                                data_cols, value_mapping, detect_sections))
             ELSE <<ParsedRow(r, current_section, raw_key, key_norm, row_values)>>
                  \o ParseFrom(ws, key_col_idx, r + 1, current_section,
                               data_cols, value_mapping, detect_sections)

\* SectionParser(sheet, key_col_idx, start_row).parse(data_cols, value_mapping, detect_sections)
SectionParser_parse(ws, key_col_idx, start_row, data_cols, value_mapping, detect_sections) ==
    Bind(start_row, LAMBDA r :
        ParseFrom(ws, key_col_idx, r, NO_SECTION, data_cols, value_mapping, detect_sections))

-----------------------------------------------------------------------------
(* LayoutScanner: first data row *)

KEY_COL_IDX == 3
DEFAULT_START_ROW == 14

DescriptionOfWork ==
    <<"D","e","s","c","r","i","p","t","i","o","n"," ","o","f"," ","W","o","r","k">>

\* variant of find_data_start_row that stops at the header label too
find_data_start_row_any_text(ws) ==
    LET hits == {row \in DEFAULT_START_ROW .. max_row(ws) :
                    LET value == Cell(ws, row, KEY_COL_IDX)
                    IN  ~IsNone(value) /\ normalize_text(value) # <<>>}
    IN  IF hits = {} THEN DEFAULT_START_ROW ELSE SetMin(hits)

\* excel_layout.find_data_start_row
find_data_start_row(ws) ==
    LET hits == {row \in DEFAULT_START_ROW .. max_row(ws) :
                    LET value == Cell(ws, row, KEY_COL_IDX)
                    IN  /\ ~IsNone(value)
                        /\ normalize_text(value) # <<>>
                        /\ normalize_text(value) # normalize_text(PyStr(DescriptionOfWork))}
    IN  IF hits = {} THEN DEFAULT_START_ROW ELSE SetMin(hits)

-----------------------------------------------------------------------------
(* Specifications of the pure functions: the input is drawn in the initial  *)
(* state and one action applies the function.                               *)

EmptySheet == [title |-> "", cells |-> <<>>]

NoSettings ==
    [overwrite_formulas |-> FALSE, write_first_match_only |-> FALSE,
     write_all_duplicates |-> FALSE, use_section_matching |-> FALSE]

NoSummary ==
    [written_cells |-> 0, matched_keys |-> 0, missing_target_keys |-> 0,
     duplicate_source_keys |-> 0, duplicate_target_keys |-> 0,
     skipped_formula_cells |-> 0]

Snapshot(s, ts, ds, sm, ph) ==
    [src |-> s, tgts |-> ts, diffs |-> ds, summary |-> sm, phase |-> ph]

\* the engine is not running in the function specifications
EngineOff ==
    /\ variant = "none"
    /\ src = EmptySheet
    /\ tgts = <<>>
    /\ cfg = NoSettings
    /\ diffs = <<>>
    /\ summary = NoSummary
    /\ phase = "Idle"
    /\ pre = Snapshot(EmptySheet, <<>>, <<>>, NoSummary, "Idle")
    /\ lastOp = ""

\* all strings over Alphabet of length at most k
StringsUpTo(Alphabet, k) == UNION {[1 .. n -> Alphabet] : n \in 0 .. k}

(* ---- parse_number ---- *)

MaxNumLen == 3

NumAlphabet == {"1", "5", ",", ".", " ", "a", "-"}

NumExamples ==
    { <<"1", ",", "5">>,
      <<"1", " ", "2", "3", "4", ",", "5">>,
      <<"1", " ", "2", "3", "4", ",", "5", "0">>,
      <<" ", " ", "5", "0", "0", " ", " ">>,
      <<"a", "b", "c">>,
      <<"1", ",", "2", "3", "4", ".", "5">>,
      <<"2", "4">> }

NumInputs ==
    {None, PyInt(0), PyInt(2), PyInt(100), PyInt(-3), HugeInt, PyFloat(15, 1), PyFloat(-25, 2)}
    \cup {PyStr(s) : s \in NumExamples \cup StringsUpTo(NumAlphabet, MaxNumLen)}

InitNum ==
    /\ EngineOff
    /\ fn = ""
    /\ arg \in NumInputs
    /\ out = None

ApplyLayoutParseNumber ==
    /\ fn = ""
    /\ fn' = "excel_layout.parse_number"
    /\ out' = parse_number(arg)
    /\ UNCHANGED <<arg, engineVars>>

ApplyParsersParseNumber ==
    /\ fn = ""
    /\ fn' = "parsers.parse_number"
    /\ out' = parsers_parse_number(arg)
    /\ UNCHANGED <<arg, engineVars>>

NextNum == ApplyLayoutParseNumber \/ ApplyParsersParseNumber

SpecNum == InitNum /\ [][NextNum]_vars

(* ---- key normalizers ---- *)

MaxNormLen == 2

NormAlphabet == {"a", "A", " ", "-"}

ManSlashHour == <<"M","a","n","/","H","o","u","r">>
ManSpaceHour == <<"m","a","n"," ","h","o","u","r">>
ManDashHour  == <<"M","A","N","-","H","O","U","R">>
QDashTy      == <<"q","-","t","y">>
Qty          == <<"Q","t","y">>

NormExamples == {ManSlashHour, ManSpaceHour, ManDashHour, QDashTy, Qty}

NormInputs == NormExamples \cup StringsUpTo(NormAlphabet, MaxNormLen)

InitNorm ==
    /\ EngineOff
    /\ fn = ""
    /\ arg \in NormInputs \X NormInputs
    /\ out = <<>>

ApplyNormalizeString ==
    /\ fn = ""
    /\ fn' = "parsers.normalize_string"
    /\ out' = <<normalize_string(arg[1]), normalize_string(arg[2])>>
    /\ UNCHANGED <<arg, engineVars>>

ApplyNormalizeText ==
    /\ fn = ""
    /\ fn' = "excel_layout.normalize_text"
    /\ out' = <<normalize_text(PyStr(arg[1])), normalize_text(PyStr(arg[2]))>>
    /\ UNCHANGED <<arg, engineVars>>

ApplyNormalizeHeader ==
    /\ fn = ""
    /\ fn' = "excel_layout.normalize_header"
    /\ out' = <<normalize_header(PyStr(arg[1])), normalize_header(PyStr(arg[2]))>>
    /\ UNCHANGED <<arg, engineVars>>

NextNorm == ApplyNormalizeString \/ ApplyNormalizeText \/ ApplyNormalizeHeader

SpecNorm == InitNorm /\ [][NextNorm]_vars

-----------------------------------------------------------------------------
(* Ordered dictionaries (Python dict): a sequence of [k, v] entries in       *)
(* insertion order, keys unique.                                            *)

DictHas(d, k) == \E i \in DOMAIN d : d[i].k = k
DictIdx(d, k) == CHOOSE i \in DOMAIN d : d[i].k = k
DictGet(d, k) == d[DictIdx(d, k)].v
\* d[k] = v: an existing key keeps its position
DictPut(d, k, v) ==
    IF DictHas(d, k) THEN [d EXCEPT ![DictIdx(d, k)].v = v]
    ELSE Append(d, [k |-> k, v |-> v])

\* concatenation of a sequence of sequences
RECURSIVE Flatten(_)
Flatten(ss) == IF ss = <<>> THEN <<>> ELSE Head(ss) \o Flatten(Tail(ss))

\* variant of FirstOnly that keeps the last row: target_rows[-1:]
LastOnly(rows) == IF rows = <<>> THEN <<>> ELSE <<rows[Len(rows)]>>

\* target_rows[:1]
FirstOnly(rows) == IF rows = <<>> THEN <<>> ELSE <<Head(rows)>>

-----------------------------------------------------------------------------
(* WeekBlock *)

WeekBlock(label, start_col, end_col) ==
    [label |-> label, start_col |-> start_col, end_col |-> end_col]

\* the column accessors of WeekBlock used by the week-block engine
col_planned_qty(block) == block.start_col
col_actual_qty(block)  == block.start_col + 2
col_timesheet(block)   == block.start_col + 4

\* the three transferable columns of a week block, in field order
FieldCols(block) == <<col_planned_qty(block), col_actual_qty(block), col_timesheet(block)>>

-----------------------------------------------------------------------------
(* Week-block engine: ReportToCostAction *)

CHECK_COL_FIRST == 4
CHECK_COL_LAST == 14

\* ReportToCostAction._get_check_cols
get_check_cols == CHECK_COL_FIRST .. CHECK_COL_LAST

\* variant of add_opt without the test for two nulls
add_opt_zero(v1, v2) ==
    AddNum(IF Truthy(v1) THEN v1 ELSE PyFloat(0, 0),
           IF Truthy(v2) THEN v2 ELSE PyFloat(0, 0))

\* add_opt of _aggregate_source_data
add_opt(v1, v2) ==
    IF IsNone(v1) /\ IsNone(v2) THEN None
    ELSE AddNum(IF Truthy(v1) THEN v1 ELSE PyFloat(0, 0),
                IF Truthy(v2) THEN v2 ELSE PyFloat(0, 0))

\* variant of the loop that keeps the values of the first row of a key
RECURSIVE AggregateRows_first_row(_, _)
AggregateRows_first_row(parsed_rows, data) ==
    IF parsed_rows = <<>> THEN data
    ELSE LET row == Head(parsed_rows)
             key == composite_key(row)
             new == IF DictHas(data, key) THEN DictGet(data, key)
                    ELSE <<row.values["planned"], row.values["actual"], row.values["timesheet"]>>
         IN  Bind(DictPut(data, key, new),
                  LAMBDA d : AggregateRows_first_row(Tail(parsed_rows), d))

\* the loop of _aggregate_source_data over the parsed rows
RECURSIVE AggregateRows(_, _)
AggregateRows(parsed_rows, data) ==
    IF parsed_rows = <<>> THEN data
    ELSE LET row == Head(parsed_rows)
             key == composite_key(row)
             p   == row.values["planned"]
             a   == row.values["actual"]
             t   == row.values["timesheet"]
             new == IF DictHas(data, key)
                    THEN LET old == DictGet(data, key)
                         IN  <<add_opt(old[1], p), add_opt(old[2], a), add_opt(old[3], t)>>
                    ELSE <<p, a, t>>
         IN  Bind(DictPut(data, key, new), LAMBDA d : AggregateRows(Tail(parsed_rows), d))

\* ReportToCostAction._aggregate_source_data
R2C_aggregate_source_data(source, week_block) ==
    LET val_map == [alias \in {"planned", "actual", "timesheet"} |->
                       CASE alias = "planned" -> col_planned_qty(week_block)
                         [] alias = "actual"  -> col_actual_qty(week_block)
                         [] OTHER             -> col_timesheet(week_block)]
        check_cols == get_check_cols
                      \cup {col_planned_qty(week_block), col_actual_qty(week_block)}
    IN  Bind(SectionParser_parse(source, KEY_COL_IDX, find_data_start_row(source),
                                 check_cols, val_map, TRUE),
             LAMBDA parsed_rows : AggregateRows(parsed_rows, <<>>))

\* the loop of the index builders: key -> rows, in sheet order
RECURSIVE IndexRows(_, _, _)
IndexRows(parsed_rows, index, composite) ==
    IF parsed_rows = <<>> THEN index
    ELSE LET row == Head(parsed_rows)
             key == IF composite THEN composite_key(row) ELSE row.key
             old == IF DictHas(index, key) THEN DictGet(index, key) ELSE <<>>
         IN  Bind(DictPut(index, key, Append(old, row.row_idx)),
                  LAMBDA d : IndexRows(Tail(parsed_rows), d, composite))

\* ReportToCostAction._build_target_index
R2C_build_target_index(target) ==
    Bind(SectionParser_parse(target, KEY_COL_IDX, find_data_start_row(target),
                             get_check_cols, <<>>, TRUE),
         LAMBDA parsed_rows : IndexRows(parsed_rows, <<>>, TRUE))

\* str(c.value).startswith('=') for a cell c with a truthy value
HasFormulaText(v) == Truthy(v) /\ StartsWith(StrOf(v), "=")

\* variant of R2C_diff_for_row without the formula check: every diff is a Write
R2C_diff_for_row_unprotected(target, key, src_wk, tgt_wk, vals, r, overwrite_formulas) ==
    IF IsNone(vals[1]) /\ IsNone(vals[2]) /\ IsNone(vals[3]) THEN <<>>
    ELSE << [key |-> key, week_label |-> src_wk.label,
             src_planned |-> vals[1], src_actual |-> vals[2], src_timesheet |-> vals[3],
             tgt_planned |-> Cell(target, r, col_planned_qty(tgt_wk)),
             tgt_actual |-> Cell(target, r, col_actual_qty(tgt_wk)),
             tgt_timesheet |-> Cell(target, r, col_timesheet(tgt_wk)),
             action |-> "Write", reason |-> "Update", row_idx_tgt |-> r] >>

\* the body of the loop "for r in target_rows" of ReportToCostAction.analyze
R2C_diff_for_row(target, key, src_wk, tgt_wk, vals, r, overwrite_formulas) ==
    LET tp == Cell(target, r, col_planned_qty(tgt_wk))
        ta == Cell(target, r, col_actual_qty(tgt_wk))
        tt == Cell(target, r, col_timesheet(tgt_wk))
        has_formula == HasFormulaText(tp) \/ HasFormulaText(ta) \/ HasFormulaText(tt)
        protected == has_formula /\ ~overwrite_formulas
    IN  IF IsNone(vals[1]) /\ IsNone(vals[2]) /\ IsNone(vals[3]) THEN <<>>
        ELSE << [key |-> key, week_label |-> src_wk.label,
                 src_planned |-> vals[1], src_actual |-> vals[2], src_timesheet |-> vals[3],
                 tgt_planned |-> tp, tgt_actual |-> ta, tgt_timesheet |-> tt,
                 action |-> IF protected THEN "Skip" ELSE "Write",
                 reason |-> IF protected THEN "Target formula protected" ELSE "Update",
                 row_idx_tgt |-> r] >>

\* the loop "for key, (sp, sa, st) in src_data.items()" for one week pair
R2C_diffs_for_pair(target, tgt_index, pair, src_data, settings) ==
    Flatten([i \in DOMAIN src_data |->
        LET key == src_data[i].k
            all_rows == IF DictHas(tgt_index, key) THEN DictGet(tgt_index, key) ELSE <<>>
            target_rows == IF settings.write_first_match_only
                           THEN FirstOnly(all_rows) ELSE all_rows
        IN  Flatten([j \in DOMAIN target_rows |->
                R2C_diff_for_row(target, key, pair[1], pair[2], src_data[i].v,
                                 target_rows[j], settings.overwrite_formulas)])])

\* ReportToCostAction.analyze: the diff list it returns
R2C_analyze(source, target, week_pairs, settings) ==
    Bind(R2C_build_target_index(target), LAMBDA tgt_index :
        Flatten([i \in DOMAIN week_pairs |->
            Bind(R2C_aggregate_source_data(source, week_pairs[i][1]), LAMBDA src_data :
                R2C_diffs_for_pair(target, tgt_index, week_pairs[i], src_data, settings))]))

\* variant of R2C_write_diff without the "is not None" tests
R2C_write_diff_with_nulls(target, diff, tgt_wk) ==
    SetCell(SetCell(SetCell(target, diff.row_idx_tgt, col_planned_qty(tgt_wk), diff.src_planned),
                    diff.row_idx_tgt, col_actual_qty(tgt_wk), diff.src_actual),
            diff.row_idx_tgt, col_timesheet(tgt_wk), diff.src_timesheet)

\* the writes of one diff in ReportToCostAction.execute
R2C_write_diff(target, diff, tgt_wk) ==
    LET w1 == IF IsNone(diff.src_planned) THEN target
              ELSE SetCell(target, diff.row_idx_tgt, col_planned_qty(tgt_wk), diff.src_planned)
        w2 == IF IsNone(diff.src_actual) THEN w1
              ELSE SetCell(w1, diff.row_idx_tgt, col_actual_qty(tgt_wk), diff.src_actual)
        w3 == IF IsNone(diff.src_timesheet) THEN w2
              ELSE SetCell(w2, diff.row_idx_tgt, col_timesheet(tgt_wk), diff.src_timesheet)
    IN  w3

\* variant of R2C_execute_from that counts a diff only when its writes change
\* the sheet
RECURSIVE R2C_execute_from_counting_changes(_, _, _)
R2C_execute_from_counting_changes(st, ds, tgt_week_bfs) ==
    IF ds = <<>> THEN st
    ELSE LET diff == Head(ds)
             applies == /\ diff.action = "Write"
                        /\ diff.row_idx_tgt # 0
                        /\ DictHas(tgt_week_bfs, diff.week_label)
             after == IF applies
                      THEN R2C_write_diff(st.target, diff, DictGet(tgt_week_bfs, diff.week_label))
                      ELSE st.target
         IN  Bind([target |-> after,
                   count  |-> IF after = st.target THEN st.count ELSE st.count + 1],
                  LAMBDA next : R2C_execute_from_counting_changes(next, Tail(ds), tgt_week_bfs))

\* ReportToCostAction.execute: the target sheet and the count after the loop
\* over ds, started from the state st = [target, count]
RECURSIVE R2C_execute_from(_, _, _)
R2C_execute_from(st, ds, tgt_week_bfs) ==
    IF ds = <<>> THEN st
    ELSE LET diff == Head(ds)
             applies == /\ diff.action = "Write"
                        /\ diff.row_idx_tgt # 0
                        /\ DictHas(tgt_week_bfs, diff.week_label)
         IN  Bind(IF applies
                  THEN [target |-> R2C_write_diff(st.target, diff,
                                                  DictGet(tgt_week_bfs, diff.week_label)),
                        count  |-> st.count + 1]
                  ELSE st,
                  LAMBDA next : R2C_execute_from(next, Tail(ds), tgt_week_bfs))

R2C_execute(target, ds, tgt_week_bfs) ==
    R2C_execute_from([target |-> target, count |-> 0], ds, tgt_week_bfs)

\* variant of build_batch_map keyed by the label of the target block
\* ("tgt_map_combined = {blk.label: blk for blk in tgt_weeks}")
RECURSIVE build_batch_map_by_target(_, _)
build_batch_map_by_target(week_pairs, batch_map) ==
    IF week_pairs = <<>> THEN batch_map
    ELSE Bind(DictPut(batch_map, Head(week_pairs)[2].label, Head(week_pairs)[2]),
              LAMBDA m : build_batch_map_by_target(Tail(week_pairs), m))

\* the label -> target block map the shell passes to execute (render_action_1)
RECURSIVE build_batch_map(_, _)
build_batch_map(week_pairs, batch_map) ==
    IF week_pairs = <<>> THEN batch_map
    ELSE Bind(DictPut(batch_map, Head(week_pairs)[1].label, Head(week_pairs)[2]),
              LAMBDA m : build_batch_map(Tail(week_pairs), m))

-----------------------------------------------------------------------------
(* Older week-block pipeline: transfer.py *)

\* transfer._build_key_map: normalized key -> rows, in sheet order
RECURSIVE build_key_map_from(_, _, _)
build_key_map_from(ws, row, key_map) ==
    IF row > max_row(ws) THEN key_map
    ELSE LET key == normalize_text(Cell(ws, row, KEY_COL_IDX))
             old == IF DictHas(key_map, key) THEN DictGet(key_map, key) ELSE <<>>
         IN  Bind(IF key = <<>> THEN key_map ELSE DictPut(key_map, key, Append(old, row)),
                  LAMBDA m : build_key_map_from(ws, row + 1, m))

build_key_map(ws, start_row) ==
    Bind(start_row, LAMBDA row : build_key_map_from(ws, row, <<>>))

\* totals[f] = (totals[f] or 0.0) + x when x is not None
add_total(total, x) ==
    IF IsNone(x) THEN total
    ELSE AddNum(IF Truthy(total) THEN total ELSE PyFloat(0, 0), x)

\* the loop "for row in rows" of transfer._aggregate_source
RECURSIVE aggregate_rows(_, _, _, _)
aggregate_rows(ws, block, rows, totals) ==
    IF rows = <<>> THEN totals
    ELSE LET row == Head(rows)
             planned   == parse_number(Cell(ws, row, block.start_col))
             actual    == parse_number(Cell(ws, row, block.start_col + 2))
             timesheet == parse_number(Cell(ws, row, block.start_col + 4))
         IN  Bind([planned   |-> add_total(totals.planned, planned),
                   actual    |-> add_total(totals.actual, actual),
                   timesheet |-> add_total(totals.timesheet, timesheet)],
                  LAMBDA sums : aggregate_rows(ws, block, Tail(rows), sums))

NoTotals == [planned |-> None, actual |-> None, timesheet |-> None]

\* the number of keys of a key map that have more than one row
DuplicateKeys(key_map) == Cardinality({i \in DOMAIN key_map : Len(key_map[i].v) > 1})

\* transfer._aggregate_source: [data, duplicate_keys]
aggregate_source(ws, block, start_row) ==
    Bind(build_key_map(ws, start_row), LAMBDA key_map :
        [data |-> [i \in DOMAIN key_map |->
                      [k |-> key_map[i].k,
                       v |-> aggregate_rows(ws, block, key_map[i].v, NoTotals)]],
         duplicate_keys |-> DuplicateKeys(key_map)])

\* transfer._is_formula_cell: a cell holding a string that starts with '='
\* (the library gives exactly those cells data_type "f")
is_formula_cell(v) == IsStr(v) /\ StartsWith(v.s, "=")

\* the three "if totals[f] is not None" blocks: which fields are writable and
\* which are held back by a formula, for target row `row`
FieldCol(block, f) ==
    CASE f = "planned" -> block.start_col
      [] f = "actual"  -> block.start_col + 2
      [] OTHER         -> block.start_col + 4

FieldSeq == <<"planned", "actual", "timesheet">>

FieldWritable(ws, block, row, totals, f, overwrite_formulas) ==
    /\ ~IsNone(totals[f])
    /\ (overwrite_formulas \/ ~is_formula_cell(Cell(ws, row, FieldCol(block, f))))

FieldBlocked(ws, block, row, totals, f, overwrite_formulas) ==
    /\ ~IsNone(totals[f])
    /\ ~(overwrite_formulas \/ ~is_formula_cell(Cell(ws, row, FieldCol(block, f))))

ReasonOf(f) ==
    CASE f = "planned" -> "planned has formula"
      [] f = "actual"  -> "actual has formula"
      [] OTHER         -> "timesheet has formula"

\* the list `reasons` (joined with ", " by the code; kept as a list here)
RowReasons(ws, block, row, totals, overwrite_formulas) ==
    Flatten([i \in DOMAIN FieldSeq |->
        IF FieldBlocked(ws, block, row, totals, FieldSeq[i], overwrite_formulas)
        THEN <<ReasonOf(FieldSeq[i])>> ELSE <<>>])

RowAction(ws, block, row, totals, overwrite_formulas) ==
    LET writable_cells == Cardinality({f \in Range(FieldSeq) :
                              FieldWritable(ws, block, row, totals, f, overwrite_formulas)})
        has_values == \E f \in Range(FieldSeq) : ~IsNone(totals[f])
    IN  IF has_values /\ writable_cells > 0 THEN "write" ELSE "skip"

MissingDiff(key, totals) ==
    [key |-> key,
     src_planned_qty |-> totals.planned, src_actual_qty |-> totals.actual,
     src_timesheet |-> totals.timesheet,
     tgt_planned_qty |-> None, tgt_actual_qty |-> None, tgt_timesheet |-> None,
     action |-> "skip", reason |-> <<"missing target key">>]

\* the diff row appended for target row `row`; shown is the sheet the tgt_*
\* values are read from
RowDiff(ws, shown, block, key, row, totals, overwrite_formulas) ==
    [key |-> key,
     src_planned_qty |-> totals.planned, src_actual_qty |-> totals.actual,
     src_timesheet |-> totals.timesheet,
     tgt_planned_qty |-> Cell(shown, row, block.start_col),
     tgt_actual_qty  |-> Cell(shown, row, block.start_col + 2),
     tgt_timesheet   |-> Cell(shown, row, block.start_col + 4),
     action |-> RowAction(ws, block, row, totals, overwrite_formulas),
     reason |-> RowReasons(ws, block, row, totals, overwrite_formulas)]

\* the state threaded through the loops of analyze_transfer / transfer_week
LegacyStart(target_ws) ==
    [target |-> target_ws, diff_rows |-> <<>>, written_cells |-> 0,
     missing_target |-> 0, skipped_formula_cells |-> 0]

\* the writes of transfer_week for one target row (lines 241-250)
RECURSIVE write_row(_, _, _, _, _, _)
write_row(st, block, row, totals, fields, overwrite_formulas) ==
    IF fields = <<>> THEN st
    ELSE LET f  == Head(fields)
             ok == FieldWritable(st.target, block, row, totals, f, overwrite_formulas)
         IN  Bind(IF ok
                  THEN [st EXCEPT !.target = SetCell(@, row, FieldCol(block, f),
                                                     FloatOfNum(totals[f])),
                                  !.written_cells = @ + 1]
                  ELSE st,
                  LAMBDA next : write_row(next, block, row, totals, Tail(fields),
                                          overwrite_formulas))

\* one iteration of "for row in rows_to_show / rows_to_write"
legacy_row_step(st, block, key, row, totals, settings, do_write) ==
    LET blocked == Cardinality({f \in Range(FieldSeq) :
                       FieldBlocked(st.target, block, row, totals, f, settings.overwrite_formulas)})
        action  == RowAction(st.target, block, row, totals, settings.overwrite_formulas)
        written == IF do_write /\ action = "write"
                   THEN write_row(st, block, row, totals, FieldSeq, settings.overwrite_formulas)
                   ELSE st
        diff    == RowDiff(st.target, written.target, block, key, row, totals,
                           settings.overwrite_formulas)
    IN  [written EXCEPT !.diff_rows = Append(@, diff),
                        !.skipped_formula_cells = @ + blocked]

RECURSIVE legacy_rows(_, _, _, _, _, _, _)
legacy_rows(st, block, key, rows, totals, settings, do_write) ==
    IF rows = <<>> THEN st
    ELSE Bind(legacy_row_step(st, block, key, Head(rows), totals, settings, do_write),
              LAMBDA next : legacy_rows(next, block, key, Tail(rows), totals, settings, do_write))

\* the loop "for key, totals in source_data.items()"
RECURSIVE legacy_keys(_, _, _, _, _, _)
legacy_keys(st, block, source_data, target_map, settings, do_write) ==
    IF source_data = <<>> THEN st
    ELSE LET key    == Head(source_data).k
             totals == Head(source_data).v
             target_rows == IF DictHas(target_map, key) THEN DictGet(target_map, key) ELSE <<>>
             rows   == IF settings.write_all_duplicates THEN target_rows
                       ELSE FirstOnly(target_rows)
             next   == IF target_rows = <<>>
                       THEN [st EXCEPT !.missing_target = @ + 1,
                                       !.diff_rows = Append(@, MissingDiff(key, totals))]
                       ELSE legacy_rows(st, block, key, rows, totals, settings, do_write)
         IN  Bind(next, LAMBDA st2 :
                 legacy_keys(st2, block, Tail(source_data), target_map, settings, do_write))

\* the TransferResult and the target sheet after the call
legacy_run(source_ws, target_ws, source_block, target_block, settings, do_write) ==
    Bind(aggregate_source(source_ws, source_block, find_data_start_row(source_ws)), LAMBDA agg :
    Bind(build_key_map(target_ws, find_data_start_row(target_ws)), LAMBDA target_map :
    Bind(legacy_keys(LegacyStart(target_ws), target_block, agg.data,
                     target_map, settings, do_write), LAMBDA st :
        [target |-> st.target,
         diff_rows |-> st.diff_rows,
         written_cells |-> st.written_cells,
         matched_keys |-> Len(agg.data) - st.missing_target,
         missing_target_keys |-> st.missing_target,
         duplicate_source_keys |-> agg.duplicate_keys,
         duplicate_target_keys |-> DuplicateKeys(target_map),
         skipped_formula_cells |-> st.skipped_formula_cells])))

\* transfer.transfer_week
transfer_week(source_ws, target_ws, source_block, target_block, settings) ==
    legacy_run(source_ws, target_ws, source_block, target_block, settings, TRUE)

\* an analysis that also performs the writes of lines 241-250
analyze_transfer_writing(source_ws, target_ws, source_block, target_block, settings) ==
    legacy_run(source_ws, target_ws, source_block, target_block, settings, TRUE)

\* variant of analyze_transfer that shows the first row of a duplicated
\* target key whatever write_all_duplicates says
analyze_transfer_first_only(source_ws, target_ws, source_block, target_block, settings) ==
    legacy_run(source_ws, target_ws, source_block, target_block,
               [settings EXCEPT !.write_all_duplicates = FALSE], FALSE)

\* transfer.analyze_transfer
analyze_transfer(source_ws, target_ws, source_block, target_block, settings) ==
    legacy_run(source_ws, target_ws, source_block, target_block, settings, FALSE)

-----------------------------------------------------------------------------
(* Cumulative engine: CostToPPCAction *)

COL_DONE_IDX_SRC == 8
COL_MAT_IDX_TGT == 2
COL_QTY_IDX_TGT == 7
C2P_SRC_START_ROW == 13
C2P_TGT_START_ROW == 2

\* the loop of CostToPPCAction._parse_source over the parsed rows
RECURSIVE SumDone(_, _)
SumDone(parsed_rows, data) ==
    IF parsed_rows = <<>> THEN data
    ELSE LET row == Head(parsed_rows)
             key == composite_key(row)
             val == row.values["done"]
         IN  Bind(IF IsNone(val) THEN data
                  ELSE IF DictHas(data, key)
                       THEN DictPut(data, key, AddNum(DictGet(data, key), val))
                       ELSE DictPut(data, key, val),
                  LAMBDA d : SumDone(Tail(parsed_rows), d))

\* CostToPPCAction._parse_source
C2P_parse_source(source) ==
    Bind(SectionParser_parse(source, KEY_COL_IDX, C2P_SRC_START_ROW,
                             {COL_DONE_IDX_SRC}, [alias \in {"done"} |-> COL_DONE_IDX_SRC],
                             TRUE),
         LAMBDA parsed_rows : SumDone(parsed_rows, <<>>))

\* variant of C2P_parse_target_sheet that detects section headers whatever
\* the setting
C2P_parse_target_sheet_detecting(sheet, use_section_matching) ==
    Bind(SectionParser_parse(sheet, COL_MAT_IDX_TGT, C2P_TGT_START_ROW,
                             {COL_QTY_IDX_TGT}, <<>>, TRUE),
         LAMBDA parsed_rows : IndexRows(parsed_rows, <<>>, use_section_matching))

\* CostToPPCAction._parse_target_sheet
C2P_parse_target_sheet(sheet, use_section_matching) ==
    Bind(SectionParser_parse(sheet, COL_MAT_IDX_TGT, C2P_TGT_START_ROW,
                             {COL_QTY_IDX_TGT}, <<>>, use_section_matching),
         LAMBDA parsed_rows : IndexRows(parsed_rows, <<>>, use_section_matching))

\* f"{src_sec} / {src_mat}"
C2P_key_label(src_sec, src_mat) == src_sec \o <<" ", "/", " ">> \o src_mat

\* the body of the loop "for r in rows" of CostToPPCAction.analyze
C2P_diff_for_row(tgt_sheet, key, src_val, r, overwrite_formulas) ==
    LET curr_val  == Cell(tgt_sheet, r, COL_QTY_IDX_TGT)
        protected == StartsWith(StrOf(curr_val), "=") /\ ~overwrite_formulas
    IN  [key |-> C2P_key_label(key[1], key[2]),
         sheet_name |-> tgt_sheet.title,
         src_val |-> src_val,
         tgt_val |-> curr_val,
         action |-> IF protected THEN "Skip" ELSE "Write",
         reason |-> IF protected THEN "Formula protected" ELSE "Update",
         row_idx_tgt |-> r]

\* variant of C2P_diffs_for_sheet that keeps the first matching row only
C2P_diffs_for_sheet_first_match(tgt_sheet, src_data, settings) ==
    Bind(C2P_parse_target_sheet(tgt_sheet, settings.use_section_matching), LAMBDA tgt_index :
        Flatten([i \in DOMAIN src_data |->
            LET key        == src_data[i].k
                lookup_key == IF settings.use_section_matching THEN key ELSE key[2]
                rows       == IF DictHas(tgt_index, lookup_key)
                              THEN FirstOnly(DictGet(tgt_index, lookup_key)) ELSE <<>>
            IN  [j \in DOMAIN rows |->
                    C2P_diff_for_row(tgt_sheet, key, src_data[i].v, rows[j],
                                     settings.overwrite_formulas)]]))

\* the loop over the source entries for one target sheet
C2P_diffs_for_sheet(tgt_sheet, src_data, settings) ==
    Bind(C2P_parse_target_sheet(tgt_sheet, settings.use_section_matching), LAMBDA tgt_index :
        Flatten([i \in DOMAIN src_data |->
            LET key        == src_data[i].k
                lookup_key == IF settings.use_section_matching THEN key ELSE key[2]
                rows       == IF DictHas(tgt_index, lookup_key)
                              THEN DictGet(tgt_index, lookup_key) ELSE <<>>
            IN  [j \in DOMAIN rows |->
                    C2P_diff_for_row(tgt_sheet, key, src_data[i].v, rows[j],
                                     settings.overwrite_formulas)]]))

\* variant of C2P_analyze that keeps its result list across calls
C2P_analyze_accumulating(source, target_sheets, settings) ==
    diffs \o Bind(C2P_parse_source(source), LAMBDA src_data :
                 Flatten([s \in DOMAIN target_sheets |->
                     C2P_diffs_for_sheet(target_sheets[s], src_data, settings)]))

\* CostToPPCAction.analyze: the diff list it returns
C2P_analyze(source, target_sheets, settings) ==
    Bind(C2P_parse_source(source), LAMBDA src_data :
        Flatten([s \in DOMAIN target_sheets |->
            C2P_diffs_for_sheet(target_sheets[s], src_data, settings)]))

\* sheet_map = {ws.title: ws for ws in self.target_sheets}: the position of the
\* sheet a title maps to (the last sheet with that title), 0 when there is none
SheetMapGet(target_sheets, title) ==
    LET hits == {s \in DOMAIN target_sheets : target_sheets[s].title = title}
    IN  IF hits = {} THEN 0 ELSE SetMax(hits)

\* variant of C2P_execute_from without the test of diff.action
RECURSIVE C2P_execute_from_any_action(_, _)
C2P_execute_from_any_action(st, ds) ==
    IF ds = <<>> THEN st
    ELSE LET diff == Head(ds)
             s    == SheetMapGet(st.targets, diff.sheet_name)
             applies == s # 0 /\ ~IsNone(diff.src_val)
         IN  Bind(IF applies
                  THEN [targets |-> [st.targets EXCEPT ![s] =
                                        SetCell(@, diff.row_idx_tgt, COL_QTY_IDX_TGT, diff.src_val)],
                        count   |-> st.count + 1]
                  ELSE st,
                  LAMBDA next : C2P_execute_from_any_action(next, Tail(ds)))

\* CostToPPCAction.execute: the target sheets and the count after the loop over
\* ds, started from the state st = [targets, count]
RECURSIVE C2P_execute_from(_, _)
C2P_execute_from(st, ds) ==
    IF ds = <<>> THEN st
    ELSE LET diff == Head(ds)
             s    == SheetMapGet(st.targets, diff.sheet_name)
             applies == diff.action = "Write" /\ s # 0 /\ ~IsNone(diff.src_val)
         IN  Bind(IF applies
                  THEN [targets |-> [st.targets EXCEPT ![s] =
                                        SetCell(@, diff.row_idx_tgt, COL_QTY_IDX_TGT, diff.src_val)],
                        count   |-> st.count + 1]
                  ELSE st,
                  LAMBDA next : C2P_execute_from(next, Tail(ds)))

C2P_execute(target_sheets, ds) ==
    C2P_execute_from([targets |-> target_sheets, count |-> 0], ds)

-----------------------------------------------------------------------------
(* The sheets a session is started on.  A sheet is built from row          *)
(* templates (column -> value); a blank template leaves the row empty.      *)

MaxRows == 2

Steel      == <<"S","t","e","e","l">>
SteelLower == <<" ","s","t","e","e","l">>
Cement     == <<"C","e","m","e","n","t">>
SectionA   == <<"S","e","c","t","i","o","n"," "," ","A">>
FormulaA1  == <<"=","A","1">>
OneCommaFive == <<"1",",","5">>

\* a sheet whose rows first_row, first_row + 1, ... are the templates of rows
MakeSheet(title, first_row, rows) ==
    LET positions == UNION {{<<first_row + i - 1, c>> : c \in DOMAIN rows[i]} : i \in DOMAIN rows}
    IN  [title |-> title,
         cells |-> [p \in positions |-> rows[p[1] - first_row + 1][p[2]]]]

RowSeqs(Templates, n) == [1 .. n -> Templates]

\* the week block of the report sheet (columns 8..12) and of the cost-control
\* sheet (columns 13..17)
ReportBlock == WeekBlock(<<"W","K","1">>, 8, 12)
CostBlock   == WeekBlock(<<"W","K","1">>, 13, 17)

\* rows of the report sheet: key in C, manhours in I, planned/actual/timesheet
\* in H/J/L
ReportRows ==
    { (3 :> PyStr(Steel)) @@ (8 :> PyInt(100)) @@ (10 :> PyInt(50)) @@ (12 :> PyInt(10)),
      (3 :> PyStr(SteelLower)) @@ (8 :> PyStr(OneCommaFive)) @@ (12 :> PyInt(0)),
      (3 :> PyStr(Steel)) @@ (9 :> PyInt(8)),
      (3 :> PyStr(SectionA)) }

\* rows of the cost-control sheet as a target: key in C, DONE in H,
\* planned/actual/timesheet in M/O/Q
CostRows ==
    { (3 :> PyStr(SteelLower)) @@ (8 :> PyInt(1200)),
      (3 :> PyStr(Steel)) @@ (8 :> PyInt(5)) @@ (13 :> PyStr(FormulaA1)) @@ (15 :> PyInt(7)),
      (3 :> PyStr(Steel)) @@ (8 :> PyInt(2)) @@ (13 :> PyStr(FormulaA1))
          @@ (15 :> PyStr(FormulaA1)) @@ (17 :> PyStr(FormulaA1)),
      (3 :> PyStr(Steel)),
      (3 :> PyStr(SectionA)) }

\* rows of the cost-control sheet as the source of the cumulative transfer
CostSourceRows ==
    { (3 :> PyStr(Steel)) @@ (8 :> PyInt(1200)),
      (3 :> PyStr(SteelLower)) @@ (8 :> PyStr(OneCommaFive)),
      (3 :> PyStr(SectionA)),
      (3 :> PyStr(Cement)) @@ (8 :> PyInt(0)) }

\* rows of a PPC sheet: material in B, quantity in G
PpcRows ==
    { (2 :> PyStr(Steel)) @@ (7 :> PyInt(100)),
      (2 :> PyStr(SteelLower)) @@ (7 :> PyStr(FormulaA1)),
      (2 :> PyStr(SectionA)),
      (2 :> PyStr(Cement)) }

ReportSheets == {MakeSheet("Report", DEFAULT_START_ROW, rows) : rows \in RowSeqs(ReportRows, MaxRows)}
CostSheets   == {MakeSheet("Cost Control", DEFAULT_START_ROW, rows) : rows \in RowSeqs(CostRows, MaxRows)}
\* a cost-control sheet with the same material outside and inside a section
TwoSectionSource ==
    MakeSheet("Cost Control", DEFAULT_START_ROW,
              << (3 :> PyStr(Steel)) @@ (8 :> PyInt(1200)),
                 (3 :> PyStr(SectionA)),
                 (3 :> PyStr(SteelLower)) @@ (8 :> PyStr(OneCommaFive)) >>)

CostSourceSheets ==
    {MakeSheet("Cost Control", DEFAULT_START_ROW, rows) : rows \in RowSeqs(CostSourceRows, MaxRows)}
    \cup {TwoSectionSource}
PpcSheets ==
    {MakeSheet("PPC Sheet 1", C2P_TGT_START_ROW, rows) : rows \in RowSeqs(PpcRows, MaxRows)}

\* a second selected sheet of the same PPC workbook (titles are unique in a
\* workbook)
SecondSheets ==
    { MakeSheet("PPC Sheet 2", C2P_TGT_START_ROW, <<(2 :> PyStr(Steel)) @@ (7 :> PyInt(3))>>),
      MakeSheet("PPC Sheet 2", C2P_TGT_START_ROW,
                <<(2 :> PyStr(Cement)) @@ (7 :> PyStr(FormulaA1))>>) }

PpcSheetLists ==
    {<<ws>> : ws \in PpcSheets} \cup {<<ws, ws2>> : ws \in PpcSheets, ws2 \in SecondSheets}

R2CSettings ==
    {[NoSettings EXCEPT !.overwrite_formulas = o, !.write_first_match_only = f] :
        o \in BOOLEAN, f \in BOOLEAN}
LegacySettings ==
    {[NoSettings EXCEPT !.overwrite_formulas = o, !.write_all_duplicates = w] :
        o \in BOOLEAN, w \in BOOLEAN}
C2PSettings ==
    {[NoSettings EXCEPT !.overwrite_formulas = o, !.use_section_matching = u] :
        o \in BOOLEAN, u \in BOOLEAN}

\* the week pairs of the session and the map the shell hands to execute
WeekPairs == << <<ReportBlock, CostBlock>> >>

-----------------------------------------------------------------------------
(* The engine as a state machine *)

Init ==
    /\ \/ /\ variant = "r2c"
          /\ src \in ReportSheets
          /\ tgts \in {<<ws>> : ws \in CostSheets}
          /\ cfg \in R2CSettings
       \/ /\ variant = "legacy"
          /\ src \in ReportSheets
          /\ tgts \in {<<ws>> : ws \in CostSheets}
          /\ cfg \in LegacySettings
       \/ /\ variant = "c2p"
          /\ src \in CostSourceSheets
          /\ tgts \in PpcSheetLists
          /\ cfg \in C2PSettings
    /\ diffs = <<>>
    /\ summary = NoSummary
    /\ phase = "Idle"
    /\ pre = Snapshot(src, tgts, <<>>, NoSummary, "Idle")
    /\ lastOp = ""
    /\ fn = ""
    /\ arg = <<>>
    /\ out = <<>>

Here == Snapshot(src, tgts, diffs, summary, phase)

\* ReportToCostAction.analyze
R2CAnalyze ==
    /\ variant = "r2c"
    /\ diffs' = R2C_analyze(src, tgts[1], WeekPairs, cfg)
    /\ summary' = NoSummary
    /\ phase' = "Analyzed"
    /\ pre' = Here
    /\ lastOp' = "analyze"
    /\ UNCHANGED <<variant, src, tgts, cfg, fnVars>>

\* ReportToCostAction.execute on the diffs of the analyze of the same request
R2CExecute ==
    /\ variant = "r2c"
    /\ phase = "Analyzed"
    /\ \E res \in {R2C_execute(tgts[1], diffs, build_batch_map(WeekPairs, <<>>))} :
           /\ tgts' = <<res.target>>
           /\ summary' = [NoSummary EXCEPT !.written_cells = res.count]
    /\ phase' = "Executed"
    /\ pre' = Here
    /\ lastOp' = "execute"
    /\ UNCHANGED <<variant, src, cfg, diffs, fnVars>>

\* CostToPPCAction.analyze
C2PAnalyze ==
    /\ variant = "c2p"
    /\ diffs' = C2P_analyze(src, tgts, cfg)
    /\ summary' = NoSummary
    /\ phase' = "Analyzed"
    /\ pre' = Here
    /\ lastOp' = "analyze"
    /\ UNCHANGED <<variant, src, tgts, cfg, fnVars>>

\* CostToPPCAction.execute on the diffs of the analyze of the same request
C2PExecute ==
    /\ variant = "c2p"
    /\ phase = "Analyzed"
    /\ \E res \in {C2P_execute(tgts, diffs)} :
           /\ tgts' = res.targets
           /\ summary' = [NoSummary EXCEPT !.written_cells = res.count]
    /\ phase' = "Executed"
    /\ pre' = Here
    /\ lastOp' = "execute"
    /\ UNCHANGED <<variant, src, cfg, diffs, fnVars>>

SummaryOf(res) ==
    [written_cells |-> res.written_cells, matched_keys |-> res.matched_keys,
     missing_target_keys |-> res.missing_target_keys,
     duplicate_source_keys |-> res.duplicate_source_keys,
     duplicate_target_keys |-> res.duplicate_target_keys,
     skipped_formula_cells |-> res.skipped_formula_cells]

\* transfer.analyze_transfer; the target worksheet is handed to the function
\* by reference, so the state after the call holds whatever it left there
LegacyAnalyze ==
    /\ variant = "legacy"
    /\ \E res \in {analyze_transfer(src, tgts[1], ReportBlock, CostBlock, cfg)} :
           /\ tgts' = <<res.target>>
           /\ diffs' = res.diff_rows
           /\ summary' = SummaryOf(res)
    /\ phase' = "Analyzed"
    /\ pre' = Here
    /\ lastOp' = "analyze"
    /\ UNCHANGED <<variant, src, cfg, fnVars>>

\* transfer.transfer_week
LegacyTransfer ==
    /\ variant = "legacy"
    /\ \E res \in {transfer_week(src, tgts[1], ReportBlock, CostBlock, cfg)} :
           /\ tgts' = <<res.target>>
           /\ diffs' = res.diff_rows
           /\ summary' = SummaryOf(res)
    /\ phase' = "Executed"
    /\ pre' = Here
    /\ lastOp' = "transfer_week"
    /\ UNCHANGED <<variant, src, cfg, fnVars>>

Next ==
    \/ R2CAnalyze
    \/ R2CExecute
    \/ C2PAnalyze
    \/ C2PExecute
    \/ LegacyAnalyze
    \/ LegacyTransfer

Spec == Init /\ [][Next]_vars

-----------------------------------------------------------------------------
(* Properties of the normalizers *)

\* the lower-cased letters and digits of a string: what is left when case,
\* whitespace and punctuation are disregarded
Skeleton(s) == SelectSeq(MapLower(s), LAMBDA c : c \in LowerChars \cup DigitChars)

\* C9: key normalization equivalence: two raw strings that differ only in
\* letter case, whitespace or punctuation ("Man/Hour", "man hour" and
\* "MAN-HOUR"; "q-ty" and "Qty") normalize to the same key.
NormalizationEquivalence ==
    fn = "parsers.normalize_string" =>
        (Skeleton(arg[1]) = Skeleton(arg[2]) => out[1] = out[2])

\* the function applied in the current behaviour, on another input
ParseNumberBy(value) ==
    IF fn = "excel_layout.parse_number" THEN parse_number(value)
    ELSE parsers_parse_number(value)

\* a string of digits with one comma and an optional leading minus sign
IsCommaDecimal(s) ==
    LET body == IF StartsWith(s, "-") THEN Tail(s) ELSE s
    IN  /\ Len(SelectSeq(body, LAMBDA c : c = ",")) = 1
        /\ SelectSeq(body, LAMBDA c : c \in DigitChars) # <<>>
        /\ \A i \in DOMAIN body : body[i] \in DigitChars \cup {","}

\* the number such a string denotes with the comma as decimal separator
CommaDecimal(s) ==
    LET body  == IF StartsWith(s, "-") THEN Tail(s) ELSE s
        comma == CHOOSE i \in DOMAIN body : body[i] = ","
        mag   == NatOfDigits(SubSeq(body, 1, comma - 1) \o SubSeq(body, comma + 1, Len(body)), 0)
    IN  PyFloat(IF StartsWith(s, "-") THEN -mag ELSE mag, Len(body) - comma)

\* C10: parse_number is total and never raises: the result is null or a
\* float; None and blank strings give null; a native number gives the float
\* of the same value; spaces in a string do not matter; a string of digits
\* with a lone comma is read with the comma as decimal separator ("1,5" ->
\* 1.5, "1 234,5" -> 1234.5, "  500  " -> 500.0); a string that is no number
\* ("abc") gives null.  Both implementations.
ParseNumberTotal ==
    fn # "" =>
        /\ out.t \in {"none", "float"}
        /\ IsNone(arg) => IsNone(out)
        /\ IsNum(arg) => out = PyFloat(arg.n, arg.e)
        /\ IsStr(arg) =>
              LET nosp == ReplaceChar(arg.s, " ", <<>>)
              IN  /\ nosp = <<>> => IsNone(out)
                  /\ out = ParseNumberBy(PyStr(nosp))
                  /\ IsCommaDecimal(nosp) => out = CommaDecimal(nosp)
                  /\ Contains(nosp, "a") => IsNone(out)
        /\ arg = PyStr(<<"1", ",", "5">>) => out = PyFloat(15, 1)
        /\ arg = PyStr(<<"1", " ", "2", "3", "4", ",", "5">>) => out = PyFloat(12345, 1)
        /\ arg = PyStr(<<" ", " ", "5", "0", "0", " ", " ">>) => out = PyFloat(500, 0)
        /\ arg = PyStr(<<"a", "b", "c">>) => IsNone(out)

\* the number a string denotes once its spaces and commas are dropped, null
\* when what is left is no number
WithoutCommas(s) ==
    LET parsed == FloatOfStr(ReplaceChar(ReplaceChar(s, " ", <<>>), ",", <<>>))
    IN  IF parsed.ok THEN parsed.v ELSE None

\* C11: separator disambiguation in parse_number: a string that holds both
\* '.' and ',' is read with every ',' dropped ("1,234.5" -> 1234.5), and the
\* parse_number of the section parser and the parse_number of the layout /
\* transfer module give the same result on every string.
SeparatorDisambiguation ==
    (fn # "" /\ IsStr(arg)) =>
        /\ (Contains(arg.s, ",") /\ Contains(arg.s, ".")) => out = WithoutCommas(arg.s)
        /\ parse_number(arg) = parsers_parse_number(arg)

-----------------------------------------------------------------------------
(* Specification of the source aggregation: the input is a report sheet     *)
(* given by its rows and a rearrangement of the same rows; one action       *)
(* aggregates both sheets.                                                   *)

MaxAggRows == 3

TwoCommaFive == <<"2",",","5">>

\* a row of the report sheet with a number in a watched column: key in C,
\* manhours in I, planned/actual/timesheet in H/J/L
AggRow(key, planned, actual, timesheet) ==
    (3 :> PyStr(key)) @@ (8 :> planned) @@ (9 :> PyInt(8)) @@ (10 :> actual) @@ (12 :> timesheet)

\* a row that holds a key and nothing else
BlankRow(key) == (3 :> PyStr(key))

\* the least integer a float does not tell from its successor
BigQty == PyInt(Pow2(FloatBits))

AggRows ==
    {AggRow(Steel, planned, None, None) :
        planned \in {None, PyInt(10), PyStr(OneCommaFive)}}
    \cup {AggRow(Cement, None, None, None),
          AggRow(SteelLower, PyInt(10), None, None),
          AggRow(Steel, PyInt(0), PyInt(5), None),
          AggRow(Cement, None, None, PyStr(TwoCommaFive)),
          AggRow(Steel, None, PyInt(5), PyFloat(25, 1)),
          AggRow(Steel, BigQty, None, None),
          AggRow(Steel, PyInt(1), None, None),
          BlankRow(SectionA)}

Perms(n) == {f \in [1 .. n -> 1 .. n] : \A i, j \in 1 .. n : i # j => f[i] # f[j]}

AggSheet(rows) == MakeSheet("Report", DEFAULT_START_ROW, rows)

Rearranged(rows, perm) == [i \in DOMAIN rows |-> rows[perm[i]]]

InitAgg ==
    /\ EngineOff
    /\ fn = ""
    /\ \E n \in 1 .. MaxAggRows : \E rows \in [1 .. n -> AggRows] : \E perm \in Perms(n) :
          arg = <<rows, perm>>
    /\ out = <<>>

\* ReportToCostAction._aggregate_source_data on the sheet and on the
\* rearranged sheet
ApplyR2CAggregate ==
    /\ fn = ""
    /\ fn' = "ReportToCostAction._aggregate_source_data"
    /\ out' = <<R2C_aggregate_source_data(AggSheet(arg[1]), ReportBlock),
                R2C_aggregate_source_data(AggSheet(Rearranged(arg[1], arg[2])), ReportBlock)>>
    /\ UNCHANGED <<arg, engineVars>>

\* transfer._aggregate_source on the sheet and on the rearranged sheet
ApplyLegacyAggregate ==
    /\ fn = ""
    /\ fn' = "transfer._aggregate_source"
    /\ out' = <<aggregate_source(AggSheet(arg[1]), ReportBlock,
                                 find_data_start_row(AggSheet(arg[1]))).data,
                aggregate_source(AggSheet(Rearranged(arg[1], arg[2])), ReportBlock,
                                 find_data_start_row(AggSheet(Rearranged(arg[1], arg[2])))).data>>
    /\ UNCHANGED <<arg, engineVars>>

NextAgg == ApplyR2CAggregate \/ ApplyLegacyAggregate

SpecAgg == InitAgg /\ [][NextAgg]_vars

\* the float sum of the values of a sequence, added from left to right
RECURSIVE FoldSum(_, _)
FoldSum(vals, acc) ==
    IF vals = <<>> THEN acc ELSE FoldSum(Tail(vals), AddNum(acc, Head(vals)))

\* null when every contribution is null, else the sum of the non-null ones
NullSum(vals) ==
    LET given == SelectSeq(vals, LAMBDA v : ~IsNone(v))
    IN  IF given = <<>> THEN None ELSE FoldSum(given, PyFloat(0, 0))

\* row i is a source row of the function applied: every keyed row for
\* _aggregate_source, a row with a number in one of the columns D..N for
\* _aggregate_source_data (a keyed row without one is a section header)
AggIsData(rows, i) ==
    \/ fn = "transfer._aggregate_source"
    \/ \E c \in DOMAIN rows[i] \cap (CHECK_COL_FIRST .. CHECK_COL_LAST) :
          ~IsNone(parsers_parse_number(rows[i][c]))

\* the label of the nearest section header above row i
AggSectionOf(rows, i) ==
    LET above == {j \in 1 .. i - 1 : ~AggIsData(rows, j)}
    IN  IF above = {} THEN NO_SECTION
        ELSE CollapseWs(rows[SetMax(above)][KEY_COL_IDX].s)

\* key and the three parsed field values of row i of the input, as the
\* function applied reads them
AggKeyOf(rows, i) ==
    IF fn = "transfer._aggregate_source"
    THEN normalize_text(rows[i][KEY_COL_IDX])
    ELSE <<AggSectionOf(rows, i), normalize_string(rows[i][KEY_COL_IDX].s)>>

AggValOf(rows, i, f) ==
    LET c == FieldCols(ReportBlock)[f]
        v == IF c \in DOMAIN rows[i] THEN rows[i][c] ELSE None
    IN  IF fn = "transfer._aggregate_source"
        THEN parse_number(v)
        ELSE parsers_parse_number(v)

\* the source rows that share the key of source row i, top down
AggRowsOfKey(rows, i) ==
    SelectSeq([j \in DOMAIN rows |-> j],
              LAMBDA j : AggIsData(rows, j) /\ AggKeyOf(rows, j) = AggKeyOf(rows, i))

\* what the rows of the key of row i contribute to field f, top down
Contributions(rows, i, f) ==
    LET same == AggRowsOfKey(rows, i)
    IN  [t \in DOMAIN same |-> AggValOf(rows, same[t], f)]

\* the three aggregated fields of an entry, in field order
AggFields(entry) ==
    IF fn = "transfer._aggregate_source"
    THEN <<entry.v.planned, entry.v.actual, entry.v.timesheet>>
    ELSE entry.v

\* result holds one entry for every key of a source row of the sheet and no
\* other, each field of it the null-sum of the contributions of the key
IsNullSumOf(rows, result) ==
    /\ \A e \in DOMAIN result :
          \E i \in DOMAIN rows : AggIsData(rows, i) /\ AggKeyOf(rows, i) = result[e].k
    /\ \A i \in DOMAIN rows : AggIsData(rows, i) =>
          /\ Cardinality({e \in DOMAIN result : result[e].k = AggKeyOf(rows, i)}) = 1
          /\ \A e \in DOMAIN result : result[e].k = AggKeyOf(rows, i) =>
                \A f \in 1 .. 3 :
                    AggFields(result[e])[f] = NullSum(Contributions(rows, i, f))

\* the rearrangement leaves every source row its key (it moves no row of
\* _aggregate_source_data into another section)
KeepsKeys(rows, perm) ==
    \A i \in DOMAIN rows :
        AggIsData(rows, perm[i]) =>
            AggKeyOf(Rearranged(rows, perm), i) = AggKeyOf(rows, perm[i])

\* the decimal sum of the values val[i], i in S, not rounded
RECURSIVE ExactSumOver(_, _)
ExactSumOver(S, val) ==
    IF S = {} THEN PyFloat(0, 0)
    ELSE LET i == CHOOSE i \in S : TRUE IN ExactSum(val[i], ExactSumOver(S \ {i}, val))

\* a float holds the decimal v
Representable(v) == RoundFloat(v.n, v.e) = PyFloat(v.n, v.e)

\* no addition of contributions of one key to one field can round: at most
\* two rows contribute, or a float holds the sum of every selection of them
SumsAreExact(rows) ==
    \A i \in DOMAIN rows : AggIsData(rows, i) =>
        \A f \in 1 .. 3 :
            LET vals  == Contributions(rows, i, f)
                given == {t \in DOMAIN vals : ~IsNone(vals[t])}
            IN  \/ Cardinality(given) <= 2
                \/ \A T \in SUBSET given : Representable(ExactSumOver(T, vals))

-----------------------------------------------------------------------------
(* Specification of the section parser: the input is a sheet and a start    *)
(* row; one action parses it with section detection, one without.           *)

MaxParseRows == 3

SecB == <<"S","e","c"," ","B">>
Dash == <<"-">>
Abc  == <<"a","b","c">>

\* a sheet row with a key cell and a quantity cell; a None leaves the cell out
ParseRow(key, qty) ==
    [c \in (IF IsNone(key) THEN {} ELSE {KEY_COL_IDX})
           \cup (IF IsNone(qty) THEN {} ELSE {COL_DONE_IDX_SRC}) |->
        IF c = KEY_COL_IDX THEN key ELSE qty]

ParseRows ==
    {ParseRow(key, qty) :
        key \in {None, PyStr(SectionA), PyStr(SecB), PyStr(Steel), PyStr(Dash)},
        qty \in {None, PyInt(5), PyStr(Abc)}}

ParseSheets == {MakeSheet("Sheet", 1, rows) : rows \in [1 .. MaxParseRows -> ParseRows]}

InitParse ==
    /\ EngineOff
    /\ fn = ""
    /\ arg \in [ws : ParseSheets, start_row : 1 .. 2]
    /\ out = <<>>

\* SectionParser(ws, 3, start_row).parse([8], {"qty": 8})
ApplyParse ==
    /\ fn = ""
    /\ fn' = "SectionParser.parse"
    /\ out' = SectionParser_parse(arg.ws, KEY_COL_IDX, arg.start_row, {COL_DONE_IDX_SRC},
                                  [alias \in {"qty"} |-> COL_DONE_IDX_SRC], TRUE)
    /\ UNCHANGED <<arg, engineVars>>

\* SectionParser(ws, 3, start_row).parse([8], {"qty": 8}, detect_sections=False)
ApplyParseFlat ==
    /\ fn = ""
    /\ fn' = "SectionParser.parse flat"
    /\ out' = SectionParser_parse(arg.ws, KEY_COL_IDX, arg.start_row, {COL_DONE_IDX_SRC},
                                  [alias \in {"qty"} |-> COL_DONE_IDX_SRC], FALSE)
    /\ UNCHANGED <<arg, engineVars>>

NextParse == ApplyParse \/ ApplyParseFlat

SpecParse == InitParse /\ [][NextParse]_vars

\* the rows of the input at or after the start row that have a key, and among
\* them the section headers (no parseable number in the watched column) and
\* the data rows
KeyedRows ==
    {r \in arg.start_row .. max_row(arg.ws) :
        normalize_string(RawKey(arg.ws, r, KEY_COL_IDX)) # <<>>}

HeaderRows ==
    {r \in KeyedRows : IsNone(parsers_parse_number(Cell(arg.ws, r, COL_DONE_IDX_SRC)))}

DataRows == KeyedRows \ HeaderRows

\* the whitespace-collapsed raw key of the nearest header above row r
SectionAbove(r) ==
    LET above == {h \in HeaderRows : h < r}
    IN  IF above = {} THEN NO_SECTION
        ELSE CollapseWs(RawKey(arg.ws, SetMax(above), KEY_COL_IDX))

\* C8: section attribution with detect_sections = true: the output has one
\* entry per data row, in row order, and none for a header row; each entry
\* carries the whitespace-collapsed raw key of the nearest header row above
\* it, or "__NO_SECTION__" when no header precedes it.
SectionAttribution ==
    fn = "SectionParser.parse" =>
        /\ [i \in DOMAIN out |-> out[i].row_idx] = Ascending(DataRows)
        /\ \A i \in DOMAIN out : out[i].section = SectionAbove(out[i].row_idx)

\* a data row before every header, then the header "Section  A" and a data
\* row filed under "Section A"
SectionAttributionWitness ==
    /\ fn = "SectionParser.parse"
    /\ Len(out) = 2
    /\ out[1].section = NO_SECTION
    /\ out[2].section = <<"S","e","c","t","i","o","n"," ","A">>

-----------------------------------------------------------------------------
(* Properties of the engines, stated on the state after a call (lastOp) and  *)
(* the state the call started in (pre).                                      *)

\* every position of two worksheets holds the same value
SameCells(a, b) ==
    \A p \in DOMAIN a.cells \cup DOMAIN b.cells : Cell(a, p[1], p[2]) = Cell(b, p[1], p[2])

SameSheets(as, bs) ==
    /\ Len(as) = Len(bs)
    /\ \A s \in DOMAIN as : as[s].title = bs[s].title /\ SameCells(as[s], bs[s])

IsWrite(diff) == diff.action \in {"Write", "write"}
IsSkip(diff) == diff.action \in {"Skip", "skip"}

\* C1: analyze is pure in every variant: after analyze returns, every cell of
\* the source sheet and of every target sheet holds the value it held when
\* the call started, whatever the configuration toggles.
AnalyzeIsPure ==
    lastOp = "analyze" => SameCells(src, pre.src) /\ SameSheets(tgts, pre.tgts)

\* an analyze that found something to write, with formulas overwritable
AnalyzeIsPureWitness ==
    /\ lastOp = "analyze"
    /\ cfg.overwrite_formulas
    /\ \E i \in DOMAIN diffs : IsWrite(diffs[i])

\* C2: no formula clobber: with overwrite_formulas false, every target cell
\* that held a formula before execute (or transfer_week) holds the same value
\* after it.
NoFormulaClobber ==
    (lastOp \in {"execute", "transfer_week"} /\ ~cfg.overwrite_formulas) =>
        \A s \in DOMAIN pre.tgts : \A p \in DOMAIN pre.tgts[s].cells :
            IsFormulaValue(pre.tgts[s].cells[p]) =>
                Cell(tgts[s], p[1], p[2]) = pre.tgts[s].cells[p]

\* an execute that wrote some row and held back a row with a formula
NoFormulaClobberWitness ==
    /\ lastOp = "execute"
    /\ ~cfg.overwrite_formulas
    /\ tgts # pre.tgts
    /\ \E i \in DOMAIN diffs :
          /\ IsSkip(diffs[i])
          /\ \E s \in DOMAIN pre.tgts : \E p \in DOMAIN pre.tgts[s].cells :
                p[1] = diffs[i].row_idx_tgt /\ IsFormulaValue(pre.tgts[s].cells[p])

\* the cells a Write diff of execute may assign: position p of target sheet s
WrittenBy(diff, s, p) ==
    /\ diff.action = "Write"
    /\ diff.row_idx_tgt = p[1]
    /\ IF variant = "c2p"
       THEN p[2] = COL_QTY_IDX_TGT /\ diff.sheet_name = pre.tgts[s].title
       ELSE \E k \in DOMAIN WeekPairs :
               /\ WeekPairs[k][1].label = diff.week_label
               /\ p[2] \in Range(FieldCols(WeekPairs[k][2]))

\* C3: execute mutates only cells of Write diffs: a target cell whose value
\* differs after execute is a transferable field cell in the target row of
\* some Write diff; the source sheet and the diff list are as before.
ExecuteTouchesOnlyWriteDiffs ==
    lastOp = "execute" =>
        /\ SameCells(src, pre.src)
        /\ diffs = pre.diffs
        /\ Len(tgts) = Len(pre.tgts)
        /\ \A s \in DOMAIN tgts :
              /\ tgts[s].title = pre.tgts[s].title
              /\ \A p \in DOMAIN tgts[s].cells \cup DOMAIN pre.tgts[s].cells :
                    Cell(tgts[s], p[1], p[2]) # Cell(pre.tgts[s], p[1], p[2]) =>
                        \E i \in DOMAIN diffs : WrittenBy(diffs[i], s, p)

\* an execute of the cumulative engine that wrote a cell while the list also
\* held a Skip diff with a value to transfer
ExecuteTouchesOnlyWriteDiffsWitness ==
    /\ lastOp = "execute"
    /\ variant = "c2p"
    /\ tgts # pre.tgts
    /\ \E i \in DOMAIN diffs : diffs[i].action = "Skip" /\ ~IsNone(diffs[i].src_val)

\* the source values of a week-block diff, in field order
R2CSrcVals(diff) == <<diff.src_planned, diff.src_actual, diff.src_timesheet>>
LegacySrcVals(diff) == <<diff.src_planned_qty, diff.src_actual_qty, diff.src_timesheet>>

\* C4: nulls are never written: for every diff and every field whose source
\* value is null, the corresponding target cell holds after execute (or
\* transfer_week) the value it held before.
NullsNeverWritten ==
    /\ (lastOp = "execute" /\ variant = "r2c") =>
          \A i \in DOMAIN diffs : \A f \in 1 .. 3 :
              IsNone(R2CSrcVals(diffs[i])[f]) =>
                  Cell(tgts[1], diffs[i].row_idx_tgt, FieldCols(CostBlock)[f])
                      = Cell(pre.tgts[1], diffs[i].row_idx_tgt, FieldCols(CostBlock)[f])
    /\ (lastOp = "execute" /\ variant = "c2p") =>
          \A i \in DOMAIN diffs : \A s \in DOMAIN tgts :
              (IsNone(diffs[i].src_val) /\ tgts[s].title = diffs[i].sheet_name) =>
                  Cell(tgts[s], diffs[i].row_idx_tgt, COL_QTY_IDX_TGT)
                      = Cell(pre.tgts[s], diffs[i].row_idx_tgt, COL_QTY_IDX_TGT)
    /\ lastOp = "transfer_week" =>
          \A i \in DOMAIN diffs : \A f \in 1 .. 3 : \A r \in RowsOf(pre.tgts[1]) :
              (IsNone(LegacySrcVals(diffs[i])[f])
                  /\ normalize_text(Cell(pre.tgts[1], r, KEY_COL_IDX)) = diffs[i].key) =>
                  Cell(tgts[1], r, FieldCol(CostBlock, FieldSeq[f]))
                      = Cell(pre.tgts[1], r, FieldCol(CostBlock, FieldSeq[f]))

\* an execute that applied a Write diff with no actual quantity to a row
\* whose actual quantity was filled in
NullsNeverWrittenWitness ==
    /\ lastOp = "execute"
    /\ variant = "r2c"
    /\ tgts # pre.tgts
    /\ \E i \in DOMAIN diffs :
          /\ diffs[i].action = "Write"
          /\ IsNone(diffs[i].src_actual)
          /\ ~IsNone(Cell(pre.tgts[1], diffs[i].row_idx_tgt, col_actual_qty(CostBlock)))

DiffsFor(key) == SelectSeq(diffs, LAMBDA d : d.key = key)

\* week-block engine: the source keys with their aggregated values, and the
\* rows of the target sheet filed under a composite key
R2CSourceData == R2C_aggregate_source_data(src, ReportBlock)

R2CTargetRows(key) ==
    LET parsed == SectionParser_parse(tgts[1], KEY_COL_IDX, find_data_start_row(tgts[1]),
                                      get_check_cols, <<>>, TRUE)
    IN  {parsed[i].row_idx : i \in {j \in DOMAIN parsed : composite_key(parsed[j]) = key}}

\* older pipeline: the source keys, and the rows of the target sheet whose
\* normalized key is key
LegacySourceData == aggregate_source(src, ReportBlock, find_data_start_row(src)).data

LegacyTargetRows(key) ==
    {r \in find_data_start_row(tgts[1]) .. max_row(tgts[1]) :
        normalize_text(Cell(tgts[1], r, KEY_COL_IDX)) = key}

\* the diff d is the diff of target row r (the older pipeline's diffs carry
\* the row's three target values instead of its index)
DiffOfRow(d, r) ==
    IF variant = "r2c" THEN d.row_idx_tgt = r
    ELSE /\ d.tgt_planned_qty = Cell(tgts[1], r, FieldCols(CostBlock)[1])
         /\ d.tgt_actual_qty = Cell(tgts[1], r, FieldCols(CostBlock)[2])
         /\ d.tgt_timesheet = Cell(tgts[1], r, FieldCols(CostBlock)[3])

WriteAll == IF variant = "r2c" THEN ~cfg.write_first_match_only ELSE cfg.write_all_duplicates

\* one diff per target row of rows, top to bottom, when write-all is on; one
\* diff, of the topmost row, when it is off
FansOut(key, rows) ==
    LET ds    == DiffsFor(key)
        order == Ascending(rows)
    IN  IF WriteAll
        THEN Len(ds) = Len(order) /\ \A i \in DOMAIN ds : DiffOfRow(ds[i], order[i])
        ELSE Len(ds) = 1 /\ DiffOfRow(ds[1], SetMin(rows))

SomeValue(vals) == \E f \in 1 .. 3 : ~IsNone(vals[f])

\* C7: duplicate target fan-out in the week-block variant: after analyze, a
\* source key with N >= 1 target rows has exactly N diffs, one per row, with
\* write-all on and exactly one diff, of the topmost row, with write-all off;
\* in ReportToCostAction this is for keys with at least one non-null
\* aggregated source value (a key whose values are all null has no diff).
DuplicateFanOut ==
    /\ (lastOp = "analyze" /\ variant = "r2c") =>
          \A e \in DOMAIN R2CSourceData :
              (R2CTargetRows(R2CSourceData[e].k) # {} /\ SomeValue(R2CSourceData[e].v)) =>
                  FansOut(R2CSourceData[e].k, R2CTargetRows(R2CSourceData[e].k))
    /\ (lastOp = "analyze" /\ variant = "legacy") =>
          \A e \in DOMAIN LegacySourceData :
              LegacyTargetRows(LegacySourceData[e].k) # {} =>
                  FansOut(LegacySourceData[e].k, LegacyTargetRows(LegacySourceData[e].k))

\* an analyze of ReportToCostAction with write-all on and a key that has two
\* target rows
DuplicateFanOutWitness ==
    /\ lastOp = "analyze"
    /\ variant = "r2c"
    /\ WriteAll
    /\ \E e \in DOMAIN R2CSourceData :
          /\ Cardinality(R2CTargetRows(R2CSourceData[e].k)) = 2
          /\ Len(DiffsFor(R2CSourceData[e].k)) = 2

\* C7 as claimed: every source key with N >= 1 target rows has N diffs
\* (write-all on) or one diff (write-all off), whatever its source values.
DuplicateFanOutAnyKey ==
    /\ (lastOp = "analyze" /\ variant = "r2c") =>
          \A e \in DOMAIN R2CSourceData :
              R2CTargetRows(R2CSourceData[e].k) # {} =>
                  FansOut(R2CSourceData[e].k, R2CTargetRows(R2CSourceData[e].k))
    /\ (lastOp = "analyze" /\ variant = "legacy") =>
          \A e \in DOMAIN LegacySourceData :
              LegacyTargetRows(LegacySourceData[e].k) # {} =>
                  FansOut(LegacySourceData[e].k, LegacyTargetRows(LegacySourceData[e].k))

-----------------------------------------------------------------------------
(* End-to-end properties of the week-block engine *)

\* the data rows of the report sheet as _aggregate_source_data parses them
R2CSourceRows ==
    SectionParser_parse(src, KEY_COL_IDX, find_data_start_row(src),
                        get_check_cols \cup {col_planned_qty(ReportBlock), col_actual_qty(ReportBlock)},
                        [alias \in {"planned", "actual", "timesheet"} |->
                            CASE alias = "planned" -> col_planned_qty(ReportBlock)
                              [] alias = "actual"  -> col_actual_qty(ReportBlock)
                              [] OTHER             -> col_timesheet(ReportBlock)],
                        TRUE)

RowValues(row) == <<row.values["planned"], row.values["actual"], row.values["timesheet"]>>

\* the null-sums of the three fields over the source rows that share key
R2CAggregateOf(key) ==
    LET same == SelectSeq(R2CSourceRows, LAMBDA row : composite_key(row) = key)
    IN  [f \in 1 .. 3 |-> NullSum([i \in DOMAIN same |-> RowValues(same[i])[f]])]

\* the target sheet the last call started on
TargetBefore == IF lastOp = "analyze" THEN tgts[1] ELSE pre.tgts[1]

\* the keyed rows of ws, its rows without a number in the columns D..N (the
\* section headers of the parser) and the label that runs at row r
KeyedRowsOn(ws) ==
    {r \in find_data_start_row(ws) .. max_row(ws) :
        normalize_string(RawKey(ws, r, KEY_COL_IDX)) # <<>>}

HeaderRowsOn(ws) == {r \in KeyedRowsOn(ws) : ~HasNumber(ws, r, get_check_cols)}

SectionOn(ws, r) ==
    LET above == {h \in HeaderRowsOn(ws) : h < r}
    IN  IF above = {} THEN NO_SECTION
        ELSE CollapseWs(RawKey(ws, SetMax(above), KEY_COL_IDX))

\* the keyed rows of ws under the section and with the normalized key of key
RowsUnder(ws, key) ==
    {r \in KeyedRowsOn(ws) :
        SectionOn(ws, r) = key[1] /\ normalize_string(RawKey(ws, r, KEY_COL_IDX)) = key[2]}

DataRowsUnder(ws, key) == RowsUnder(ws, key) \ HeaderRowsOn(ws)

BlankBlock(ws, r) == \A f \in 1 .. 3 : IsNone(Cell(ws, r, FieldCols(CostBlock)[f]))

DiffSource(d) == <<d.src_planned, d.src_actual, d.src_timesheet>>

\* after analyze the key has one diff, a Write of vals to row r; after
\* execute the three cells of row r hold vals
TransfersTo(key, r, vals) ==
    /\ lastOp = "analyze" =>
          LET ds == DiffsFor(key)
          IN  /\ Len(ds) = 1
              /\ ds[1].action = "Write"
              /\ ds[1].row_idx_tgt = r
              /\ DiffSource(ds[1]) = vals
    /\ lastOp = "execute" =>
          \A f \in 1 .. 3 : Cell(tgts[1], r, FieldCols(CostBlock)[f]) = vals[f]

\* C12: end-to-end week-block transfer: for a source data row under section S
\* with key K whose planned, actual and timesheet values are all non-null,
\* and a target sheet with exactly one data row under S with key K, its three
\* cells blank: analyze gives exactly one diff for the key, a Write that
\* carries the sums of the three fields over the source rows of (S, K) (the
\* row's own values when it is the only one), and execute sets the three
\* cells of the target row to those values.
EndToEndTransfer ==
    (variant = "r2c" /\ lastOp \in {"analyze", "execute"}) =>
        \A i \in DOMAIN R2CSourceRows :
            LET row  == R2CSourceRows[i]
                key  == composite_key(row)
                rows == DataRowsUnder(TargetBefore, key)
            IN  (/\ \A f \in 1 .. 3 : ~IsNone(RowValues(row)[f])
                 /\ Cardinality(rows) = 1
                 /\ \A r \in rows : BlankBlock(TargetBefore, r)) =>
                    /\ \A r \in rows : TransfersTo(key, r, R2CAggregateOf(key))
                    /\ Cardinality({j \in DOMAIN R2CSourceRows :
                                       composite_key(R2CSourceRows[j]) = key}) = 1 =>
                          R2CAggregateOf(key) = RowValues(row)

\* execute has written 100.0, 50.0 and 10.0 into the blank cells of the one
\* target row of a key with one source row
EndToEndTransferWitness ==
    /\ variant = "r2c"
    /\ lastOp = "execute"
    /\ \E i \in DOMAIN R2CSourceRows :
          LET key == composite_key(R2CSourceRows[i])
          IN  /\ RowValues(R2CSourceRows[i]) = <<PyFloat(100, 0), PyFloat(50, 0), PyFloat(10, 0)>>
              /\ Cardinality(DataRowsUnder(pre.tgts[1], key)) = 1
              /\ \E r \in DataRowsUnder(pre.tgts[1], key) :
                    /\ BlankBlock(pre.tgts[1], r)
                    /\ \A f \in 1 .. 3 :
                          Cell(tgts[1], r, FieldCols(CostBlock)[f])
                              = RowValues(R2CSourceRows[i])[f]

\* C12 as stated: with exactly one keyed row under S with key K in the
\* target, its three cells blank, the one diff carries the values of the
\* source row and execute writes the values of the source row.
EndToEndTransferOfRow ==
    (variant = "r2c" /\ lastOp \in {"analyze", "execute"}) =>
        \A i \in DOMAIN R2CSourceRows :
            LET row  == R2CSourceRows[i]
                key  == composite_key(row)
                rows == RowsUnder(TargetBefore, key)
            IN  (/\ \A f \in 1 .. 3 : ~IsNone(RowValues(row)[f])
                 /\ Cardinality(rows) = 1
                 /\ \A r \in rows : BlankBlock(TargetBefore, r)) =>
                    \A r \in rows : TransfersTo(key, r, RowValues(row))


-----------------------------------------------------------------------------
(* The count a transfer returns *)

LegacyTotals(entry) == <<entry.v.planned, entry.v.actual, entry.v.timesheet>>

\* the target cells the last execute (or transfer_week) assigned, each a pair
\* of sheet number and position
AssignedCells ==
    CASE variant = "r2c" ->
            {<<1, <<diffs[x[1]].row_idx_tgt, FieldCols(CostBlock)[x[2]]>>>> :
                x \in {y \in (DOMAIN diffs) \X (1 .. 3) :
                          /\ diffs[y[1]].action = "Write"
                          /\ diffs[y[1]].row_idx_tgt # 0
                          /\ diffs[y[1]].week_label = ReportBlock.label
                          /\ ~IsNone(R2CSrcVals(diffs[y[1]])[y[2]])}}
      [] variant = "c2p" ->
            {<<x[2], <<diffs[x[1]].row_idx_tgt, COL_QTY_IDX_TGT>>>> :
                x \in {y \in (DOMAIN diffs) \X (DOMAIN tgts) :
                          /\ diffs[y[1]].action = "Write"
                          /\ tgts[y[2]].title = diffs[y[1]].sheet_name
                          /\ ~IsNone(diffs[y[1]].src_val)}}
      [] OTHER ->
            {<<1, <<x[2], FieldCols(CostBlock)[x[3]]>>>> :
                x \in {y \in (DOMAIN LegacySourceData) \X RowsOf(pre.tgts[1]) \X (1 .. 3) :
                          LET rows == LegacyTargetRows(LegacySourceData[y[1]].k)
                          IN  /\ y[2] \in rows
                              /\ cfg.write_all_duplicates \/ y[2] = SetMin(rows)
                              /\ ~IsNone(LegacyTotals(LegacySourceData[y[1]])[y[3]])
                              /\ \/ cfg.overwrite_formulas
                                 \/ ~IsFormulaValue(Cell(pre.tgts[1], y[2],
                                                         FieldCols(CostBlock)[y[3]]))}}

\* C13: the number a transfer returns is the count of cells written: the
\* return value of ReportToCostAction.execute and of CostToPPCAction.execute
\* and written_cells of transfer_week equal the number of target cells the
\* call assigned.
CountIsCellsWritten ==
    lastOp \in {"execute", "transfer_week"} =>
        summary.written_cells = Cardinality(AssignedCells)


-----------------------------------------------------------------------------
(* Diffs and the target rows they describe, in the week-block engines *)

SrcVals(diff) == IF variant = "r2c" THEN R2CSrcVals(diff) ELSE LegacySrcVals(diff)

\* the rows the older pipeline visits for a key, top to bottom
LegacyRowsShown(key) ==
    LET rows == LegacyTargetRows(key)
    IN  IF rows = {} THEN <<>>
        ELSE IF cfg.write_all_duplicates THEN Ascending(rows) ELSE <<SetMin(rows)>>

\* the pairs <<diff, target row>> of the last analysis or transfer; the older
\* pipeline's diffs follow the visiting order of their key's rows
DiffRowPairs ==
    IF variant = "r2c"
    THEN {<<diffs[i], diffs[i].row_idx_tgt>> : i \in {j \in DOMAIN diffs : diffs[j].row_idx_tgt # 0}}
    ELSE UNION {LET ds    == DiffsFor(LegacySourceData[e].k)
                    order == LegacyRowsShown(LegacySourceData[e].k)
                IN  {<<ds[i], order[i]>> : i \in (DOMAIN ds) \cap (DOMAIN order)} :
                e \in DOMAIN LegacySourceData}

FormulaFields(r) ==
    {f \in 1 .. 3 : IsFormulaValue(Cell(TargetBefore, r, FieldCols(CostBlock)[f]))}

\* the fields of a diff that have a source value and no formula in the target
WritableFields(diff, r) ==
    {f \in 1 .. 3 : f \notin FormulaFields(r) /\ ~IsNone(SrcVals(diff)[f])}

\* C14: per-cell formula protection in the week-block variant with
\* overwrite_formulas off: a matched target row with a formula in some but not
\* all of its three field cells and a source value for a non-formula field
\* gets a Write diff, the transfer writes every non-formula field that has a
\* source value, every formula cell keeps its formula, and a diff is Skip only
\* when no field is writable.
PerCellFormulaProtection ==
    (variant \in {"r2c", "legacy"} /\ lastOp # "" /\ ~cfg.overwrite_formulas) =>
        \A pair \in DiffRowPairs :
            LET d == pair[1]
                r == pair[2]
                mixed == FormulaFields(r) # {} /\ FormulaFields(r) # 1 .. 3
            IN  /\ (mixed /\ WritableFields(d, r) # {}) =>
                    /\ IsWrite(d)
                    /\ lastOp \in {"execute", "transfer_week"} =>
                        /\ \A f \in WritableFields(d, r) :
                              Cell(tgts[1], r, FieldCols(CostBlock)[f]) =
                                  (IF variant = "r2c" THEN SrcVals(d)[f]
                                   ELSE FloatOfNum(SrcVals(d)[f]))
                        /\ \A f \in FormulaFields(r) :
                              Cell(tgts[1], r, FieldCols(CostBlock)[f]) =
                                  Cell(pre.tgts[1], r, FieldCols(CostBlock)[f])
                /\ IsSkip(d) => WritableFields(d, r) = {}


-----------------------------------------------------------------------------
(* Source keys without a target row *)

\* cumulative engine: the source keys with their summed DONE values, and the
\* normalized material of a target row
C2PSourceData == C2P_parse_source(src)

TargetMaterial(s, r) == normalize_string(RawKey(tgts[s], r, COL_MAT_IDX_TGT))

\* the diffs of key are one Skip diff with the reason "missing target key"
OneMissingDiff(key) ==
    LET ds == DiffsFor(key)
    IN  /\ Len(ds) = 1
        /\ IsSkip(ds[1])
        /\ IF variant = "r2c" THEN ds[1].reason = "missing target key"
                              ELSE ds[1].reason = <<"missing target key">>

\* C15: missing target key.  In the week-block variant every source key
\* without a matching target row yields exactly one diff, with action Skip and
\* reason "missing target key", and no write; in the cumulative variant such a
\* key yields no diff, so every diff of CostToPPCAction.analyze refers to an
\* existing matched target row.
MissingTargetKey ==
    lastOp # "" =>
        CASE variant = "r2c" ->
                /\ \A e \in DOMAIN R2CSourceData :
                      R2CTargetRows(R2CSourceData[e].k) = {} => OneMissingDiff(R2CSourceData[e].k)
                /\ (/\ lastOp = "execute"
                    /\ \A e \in DOMAIN R2CSourceData : R2CTargetRows(R2CSourceData[e].k) = {})
                       => SameSheets(tgts, pre.tgts)
          [] variant = "legacy" ->
                /\ \A e \in DOMAIN LegacySourceData :
                      LegacyTargetRows(LegacySourceData[e].k) = {} =>
                          OneMissingDiff(LegacySourceData[e].k)
                /\ (/\ lastOp = "transfer_week"
                    /\ \A e \in DOMAIN LegacySourceData :
                          LegacyTargetRows(LegacySourceData[e].k) = {})
                       => SameSheets(tgts, pre.tgts)
          [] OTHER ->
                \A i \in DOMAIN diffs :
                    \E s \in DOMAIN tgts : \E e \in DOMAIN C2PSourceData :
                        /\ tgts[s].title = diffs[i].sheet_name
                        /\ diffs[i].key = C2P_key_label(C2PSourceData[e].k[1], C2PSourceData[e].k[2])
                        /\ diffs[i].row_idx_tgt \in RowsOf(tgts[s])
                        /\ TargetMaterial(s, diffs[i].row_idx_tgt) = C2PSourceData[e].k[2]


-----------------------------------------------------------------------------
(* Source keys without values *)

AllNull(vals) == \A f \in DOMAIN vals : IsNone(vals[f])

\* C16: suppression of empty diffs in the week-block variant: a source key
\* whose aggregated planned, actual and timesheet values are all null has no
\* diff for any matching target row, neither Write nor Skip; every diff of a
\* matched target row has at least one non-null source value.
EmptyDiffsSuppressed ==
    (variant \in {"r2c", "legacy"} /\ lastOp # "") =>
        /\ \A pair \in DiffRowPairs : ~AllNull(SrcVals(pair[1]))
        /\ IF variant = "r2c"
           THEN \A e \in DOMAIN R2CSourceData :
                    (AllNull(R2CSourceData[e].v) /\ R2CTargetRows(R2CSourceData[e].k) # {})
                        => DiffsFor(R2CSourceData[e].k) = <<>>
           ELSE \A e \in DOMAIN LegacySourceData :
                    (AllNull(LegacyTotals(LegacySourceData[e]))
                        /\ LegacyTargetRows(LegacySourceData[e].k) # {})
                        => DiffsFor(LegacySourceData[e].k) = <<>>


-----------------------------------------------------------------------------
(* The target values a diff records *)

SheetsBefore == IF lastOp = "analyze" THEN tgts ELSE pre.tgts

TgtVals(diff) ==
    IF variant = "r2c" THEN <<diff.tgt_planned, diff.tgt_actual, diff.tgt_timesheet>>
    ELSE <<diff.tgt_planned_qty, diff.tgt_actual_qty, diff.tgt_timesheet>>

\* C17: in both variants the target values of a diff are the values the
\* target cells held before any write of the transfer: for every diff with a
\* target row, the recorded values equal the cells' values at the start.
TargetValuesArePreWrite ==
    lastOp # "" =>
        IF variant = "c2p"
        THEN \A i \in DOMAIN diffs :
                \E s \in DOMAIN tgts :
                    /\ tgts[s].title = diffs[i].sheet_name
                    /\ diffs[i].tgt_val =
                           Cell(SheetsBefore[s], diffs[i].row_idx_tgt, COL_QTY_IDX_TGT)
        ELSE \A pair \in DiffRowPairs :
                \A f \in 1 .. 3 :
                    TgtVals(pair[1])[f] =
                        Cell(SheetsBefore[1], pair[2], FieldCols(CostBlock)[f])


-----------------------------------------------------------------------------
(* Matching in the cumulative engine *)

PpcRowRange(s) == C2P_TGT_START_ROW .. max_row(tgts[s])

\* the quantity cell of a target row holds a number
IsPpcData(s, r) == ~IsNone(parsers_parse_number(Cell(SheetsBefore[s], r, COL_QTY_IDX_TGT)))

\* the running section label of a target row when headers are detected
PpcSection(s, r) ==
    LET headers == {h \in PpcRowRange(s) :
                       h < r /\ TargetMaterial(s, h) # <<>> /\ ~IsPpcData(s, h)}
    IN  IF headers = {} THEN NO_SECTION
        ELSE CollapseWs(RawKey(tgts[s], SetMax(headers), COL_MAT_IDX_TGT))

MaterialMatches(key, s, r) ==
    r \in PpcRowRange(s) /\ TargetMaterial(s, r) # <<>> /\ TargetMaterial(s, r) = key[2]

SectionMatches(key, s, r) ==
    MaterialMatches(key, s, r) /\ IsPpcData(s, r) /\ PpcSection(s, r) = key[1]

C2PMatches(key, s, r) ==
    IF cfg.use_section_matching THEN SectionMatches(key, s, r) ELSE MaterialMatches(key, s, r)

\* the triples <<source entry, target sheet, target row>> that match
C2PTriples ==
    {t \in (DOMAIN C2PSourceData) \X (DOMAIN tgts) \X (UNION {PpcRowRange(s) : s \in DOMAIN tgts}) :
        C2PMatches(C2PSourceData[t[1]].k, t[2], t[3])}

\* the diff is the diff of the triple
DiffOfTriple(diff, t) ==
    /\ diff.key = C2P_key_label(C2PSourceData[t[1]].k[1], C2PSourceData[t[1]].k[2])
    /\ diff.src_val = C2PSourceData[t[1]].v
    /\ diff.sheet_name = tgts[t[2]].title
    /\ diff.row_idx_tgt = t[3]

\* C18: cumulative fan-out: CostToPPCAction.analyze emits one diff for every
\* triple of a source key with a DONE quantity, a target sheet and a row of
\* that sheet matching the key, and no other diff; each diff carries the
\* sheet's name and the row's index, and no match is dropped in favour of a
\* first one.
CumulativeFanOut ==
    (variant = "c2p" /\ lastOp # "") =>
        /\ Len(diffs) = Cardinality(C2PTriples)
        /\ \A t \in C2PTriples : \E i \in DOMAIN diffs : DiffOfTriple(diffs[i], t)
        /\ \A i \in DOMAIN diffs : \E t \in C2PTriples : DiffOfTriple(diffs[i], t)

\* one source key has diffs in two sheets and in two rows of one sheet
CumulativeFanOutWitness ==
    /\ variant = "c2p"
    /\ lastOp = "analyze"
    /\ \E i, j, k \in DOMAIN diffs :
          /\ diffs[i].key = diffs[j].key /\ diffs[i].key = diffs[k].key
          /\ diffs[i].sheet_name # diffs[j].sheet_name
          /\ diffs[i].sheet_name = diffs[k].sheet_name
          /\ diffs[i].row_idx_tgt # diffs[k].row_idx_tgt

\* the source rows of the cumulative engine that carry a DONE number, with
\* their running section label
CostRowRange == C2P_SRC_START_ROW .. max_row(src)

IsCostData(r) ==
    /\ normalize_string(RawKey(src, r, KEY_COL_IDX)) # <<>>
    /\ ~IsNone(parsers_parse_number(Cell(src, r, COL_DONE_IDX_SRC)))

CostSection(r) ==
    LET headers == {h \in CostRowRange :
                       /\ h < r
                       /\ normalize_string(RawKey(src, h, KEY_COL_IDX)) # <<>>
                       /\ ~IsCostData(h)}
    IN  IF headers = {} THEN NO_SECTION
        ELSE CollapseWs(RawKey(src, SetMax(headers), KEY_COL_IDX))

HasDiff(e, s, r) ==
    \E i \in DOMAIN diffs :
        /\ diffs[i].key = C2P_key_label(C2PSourceData[e].k[1], C2PSourceData[e].k[2])
        /\ diffs[i].sheet_name = tgts[s].title
        /\ diffs[i].row_idx_tgt = r

\* C19: matching granularity of the cumulative variant: the source is
\* aggregated by (section, material) whatever the setting; with
\* use_section_matching off an entry (S, M) matches every keyed target row
\* whose normalized material is M, whatever precedes it; with it on, it
\* matches only the target data rows whose normalized material is M and whose
\* running section label is S.
MatchingGranularity ==
    (variant = "c2p" /\ lastOp # "") =>
        /\ {C2PSourceData[e].k : e \in DOMAIN C2PSourceData} =
               {<<CostSection(r), normalize_string(RawKey(src, r, KEY_COL_IDX))>> :
                   r \in {x \in CostRowRange : IsCostData(x)}}
        /\ \A e \in DOMAIN C2PSourceData : \A s \in DOMAIN tgts : \A r \in PpcRowRange(s) :
              IF cfg.use_section_matching
              THEN HasDiff(e, s, r) <=> SectionMatches(C2PSourceData[e].k, s, r)
              ELSE HasDiff(e, s, r) <=> MaterialMatches(C2PSourceData[e].k, s, r)

\* with section matching on, an entry has a diff for one row and none for a
\* row of the same material under another section; with it off, a keyed row
\* below a row without a quantity is matched
MatchingGranularityWitness ==
    /\ variant = "c2p"
    /\ lastOp = "analyze"
    /\ \E e \in DOMAIN C2PSourceData : \E s, s2 \in DOMAIN tgts :
       \E r \in PpcRowRange(s) : \E r2 \in PpcRowRange(s2) :
          /\ cfg.use_section_matching
          /\ HasDiff(e, s, r)
          /\ MaterialMatches(C2PSourceData[e].k, s2, r2)
          /\ ~HasDiff(e, s2, r2)


-----------------------------------------------------------------------------
(* The presentation shell: render_action_1 and render_action_2 of app.py.   *)
(* A request runs the handler from the top; the workbooks of the session    *)
(* persist between requests.                                                *)

\* what a request brings: whether each workbook of the session is loaded
\* (load_excel returns None on failure) and the buttons pressed
Requests ==
    [wb_src : BOOLEAN, wb_tgt : BOOLEAN, btn_analyze : BOOLEAN, btn_transfer : BOOLEAN]

NoRequest == [wb_src |-> FALSE, wb_tgt |-> FALSE, btn_analyze |-> FALSE, btn_transfer |-> FALSE]

NoAnalysis == [ran |-> FALSE, returned |-> <<>>, target |-> <<>>]

\* variant of Proceeds that goes on when one workbook is loaded
Proceeds_either(wb_src, wb_tgt) == wb_src \/ wb_tgt

\* "if not wb_src or not wb_tgt: return"
Proceeds(wb_src, wb_tgt) == wb_src /\ wb_tgt

\* "if btn_analyze or btn_transfer:" / "if target_sheets and (btn_analyze or btn_transfer):"
RunsAnalyze(request) == request.btn_analyze \/ request.btn_transfer

InitShell ==
    /\ \/ /\ variant = "r2c"
          /\ src \in ReportSheets
          /\ tgts \in {<<ws>> : ws \in CostSheets}
       \/ /\ variant = "c2p"
          /\ src \in CostSourceSheets
          /\ tgts \in PpcSheetLists
    /\ cfg = NoSettings
    /\ diffs = <<>>
    /\ summary = NoSummary
    /\ phase = "Idle"
    /\ pre = Snapshot(src, tgts, <<>>, NoSummary, "Idle")
    /\ lastOp = ""
    /\ fn = "wait"
    /\ arg = NoRequest
    /\ out = NoAnalysis

\* the top of the handler up to the construction of the action object; the
\* handler returns when a workbook is missing
ShellRequest ==
    /\ fn = "wait"
    /\ \E request \in Requests :
          /\ arg' = request
          /\ fn' = IF Proceeds(request.wb_src, request.wb_tgt) THEN "configured" ELSE "wait"
    /\ diffs' = <<>>
    /\ summary' = NoSummary
    /\ phase' = "Idle"
    /\ out' = NoAnalysis
    /\ UNCHANGED <<variant, src, tgts, cfg, pre, lastOp>>

\* diffs = action.analyze()
ShellAnalyze ==
    /\ fn = "configured"
    /\ RunsAnalyze(arg)
    /\ \E res \in {IF variant = "r2c" THEN R2C_analyze(src, tgts[1], WeekPairs, cfg)
                   ELSE C2P_analyze(src, tgts, cfg)} :
          /\ diffs' = res
          /\ out' = [ran |-> TRUE, returned |-> res, target |-> tgts]
    /\ phase' = "Analyzed"
    /\ pre' = Here
    /\ lastOp' = "analyze"
    /\ fn' = "analyzed"
    /\ UNCHANGED <<variant, src, tgts, cfg, summary, arg>>

\* count = action.execute(diffs, batch_map) / cnt = action.execute(diffs),
\* inside "if btn_transfer:"
ShellExecute ==
    /\ fn = "analyzed"
    /\ arg.btn_transfer
    /\ \E res \in {IF variant = "r2c"
                   THEN LET done == R2C_execute(tgts[1], diffs, build_batch_map(WeekPairs, <<>>))
                        IN  [targets |-> <<done.target>>, count |-> done.count]
                   ELSE C2P_execute(tgts, diffs)} :
          /\ tgts' = res.targets
          /\ summary' = [NoSummary EXCEPT !.written_cells = res.count]
    /\ phase' = "Executed"
    /\ pre' = Here
    /\ lastOp' = "execute"
    /\ fn' = "transferred"
    /\ UNCHANGED <<variant, src, cfg, diffs, arg, out>>

\* the handler returns: no button pressed, or the analysis shown, or the
\* transfer done
ShellReturn ==
    /\ \/ fn = "configured" /\ ~RunsAnalyze(arg)
       \/ fn = "analyzed" /\ ~arg.btn_transfer
       \/ fn = "transferred"
    /\ fn' = "wait"
    /\ UNCHANGED <<engineVars, arg, out>>

NextShell == ShellRequest \/ ShellAnalyze \/ ShellExecute \/ ShellReturn

SpecShell == InitShell /\ [][NextShell]_vars

\* C20: two-phase ordering Idle -> Analyzed -> Executed in both workflows of
\* the shell: every call of execute is preceded in the same request by a call
\* of analyze on the same action object, the diff list passed to execute is
\* the list analyze returned, no target cell is mutated between the two, and
\* execute is not reached when a workbook failed to load or no analyze ran.
TwoPhaseOrdering ==
    [][lastOp' = "execute" /\ fn' = "transferred" /\ fn # "transferred" =>
          /\ phase = "Analyzed" /\ phase' = "Executed"
          /\ out.ran
          /\ diffs = out.returned
          /\ SameSheets(tgts, out.target)
          /\ arg.wb_src /\ arg.wb_tgt]_vars

\* a transfer of the shell has just changed a target cell
TwoPhaseOrderingWitness ==
    /\ fn = "transferred"
    /\ lastOp = "execute"
    /\ summary.written_cells > 0
    /\ ~SameSheets(tgts, pre.tgts)


-----------------------------------------------------------------------------
(* Rows are matched by key *)

ChangedCells ==
    {p \in (DOMAIN tgts[1].cells) \cup (DOMAIN pre.tgts[1].cells) :
        Cell(tgts[1], p[1], p[2]) # Cell(pre.tgts[1], p[1], p[2])}

\* C21: row matching is by key, not by position.  In the week-block variant
\* the target row of a diff has the diff's normalized key (and, in the
\* section-aware engine, the diff's running section label), whatever the
\* order of the rows in the two sheets; a source key is never paired with a
\* target row of another key.
MatchingIsByKey ==
    (variant \in {"r2c", "legacy"} /\ lastOp # "") =>
        IF variant = "r2c"
        THEN \A i \in DOMAIN diffs :
                LET r == diffs[i].row_idx_tgt
                IN  r # 0 =>
                       /\ r \in KeyedRowsOn(TargetBefore)
                       /\ normalize_string(RawKey(TargetBefore, r, KEY_COL_IDX)) = diffs[i].key[2]
                       /\ SectionOn(TargetBefore, r) = diffs[i].key[1]
        ELSE /\ \A i \in DOMAIN diffs :
                   diffs[i].reason # <<"missing target key">> =>
                       \E r \in RowsOf(tgts[1]) :
                           /\ normalize_text(Cell(tgts[1], r, KEY_COL_IDX)) = diffs[i].key
                           /\ \A f \in 1 .. 3 :
                                 TgtVals(diffs[i])[f] = Cell(tgts[1], r, FieldCols(CostBlock)[f])
             /\ lastOp = "transfer_week" =>
                   \A p \in ChangedCells :
                       \E e \in DOMAIN LegacySourceData : \E f \in 1 .. 3 :
                           /\ normalize_text(Cell(tgts[1], p[1], KEY_COL_IDX)) = LegacySourceData[e].k
                           /\ p[2] = FieldCols(CostBlock)[f]
                           /\ Cell(tgts[1], p[1], p[2]) =
                                  FloatOfNum(LegacyTotals(LegacySourceData[e])[f])

\* a value has been written to a target row that stands at another position
\* than every source row of its key
MatchingIsByKeyWitness ==
    /\ variant = "r2c"
    /\ lastOp = "execute"
    /\ ~SameSheets(tgts, pre.tgts)
    /\ \E i \in DOMAIN diffs :
          /\ diffs[i].action = "Write"
          /\ \E j \in DOMAIN R2CSourceRows : composite_key(R2CSourceRows[j]) = diffs[i].key
          /\ \A j \in DOMAIN R2CSourceRows :
                composite_key(R2CSourceRows[j]) = diffs[i].key =>
                    R2CSourceRows[j].row_idx # diffs[i].row_idx_tgt


-----------------------------------------------------------------------------
(* LayoutScanner: week blocks (excel_layout.detect_week_blocks).  A sheet   *)
(* here carries, besides its cells, its merged ranges in the order in which *)
(* ws.merged_cells.ranges enumerates them.                                  *)

MONTHS ==
    { <<"j","a","n","u","a","r","y">>,
      <<"f","e","b","r","u","a","r","y">>,
      <<"m","a","r","c","h">>,
      <<"a","p","r","i","l">>,
      <<"m","a","y">>,
      <<"j","u","n","e">>,
      <<"j","u","l","y">>,
      <<"a","u","g","u","s","t">>,
      <<"s","e","p","t","e","m","b","e","r">>,
      <<"o","c","t","o","b","e","r">>,
      <<"n","o","v","e","m","b","e","r">>,
      <<"d","e","c","e","m","b","e","r">> }

RemoveSpaces(s) == SelectSeq(s, LAMBDA c : c # " ")

is_qty_header(value) ==
    LET text == normalize_header(value)
    IN  \/ text \in {<<"q"," ","t","y">>, <<"q","t","y">>, <<"q","'","t","y">>}
        \/ RemoveSpaces(text) = <<"q","t","y">>

is_manhour_header(value) ==
    normalize_header(value) \in
        { <<"m"," ","h","o","u","r">>, <<"m","a","n"," ","h","o","u","r">>,
          <<"m","a","n"," ","h","o","u","r","s">>, <<"m","a","n","h","o","u","r">> }

is_timesheet_header(value) ==
    normalize_header(value) \in
        { <<"t","i","m","e","s","h","e","e","t">>,
          <<"t","i","m","e"," ","s","h","e","e","t">>,
          <<"t","i","m","e","s","h","e","e","t"," ","h","o","u","r","s">>,
          <<"t","i","m","e","s","h","e","e","t"," ","h">> }

is_month_label(label) == label \in MONTHS

header_pattern_matches(items) ==
    IF Len(items) # 5 THEN FALSE
    ELSE /\ is_qty_header(items[1])
         /\ is_manhour_header(items[2])
         /\ is_qty_header(items[3])
         /\ is_manhour_header(items[4])
         /\ is_timesheet_header(items[5])

MergedRange(r1, r2, c1, c2) ==
    [min_row |-> r1, max_row |-> r2, min_col |-> c1, max_col |-> c2]

\* ws.max_column: the merged cells of a range are cells of the sheet
max_column(ws) ==
    LET cols == {p[2] : p \in DOMAIN ws.cells}
                \cup {ws.merged[i].max_col : i \in DOMAIN ws.merged}
    IN  IF cols = {} THEN 1 ELSE SetMax(cols)

\* the label test and the header test of a candidate starting at start_col
\* and ending at end_col, and the block appended for it
CandidateBlock(ws, start_col, end_col) ==
    LET label_value   == Cell(ws, 10, start_col)
        label         == normalize_text(label_value)
        header_values == [i \in 1 .. (end_col - start_col + 1) |-> Cell(ws, 13, start_col + i - 1)]
    IN  IF label = <<>> \/ is_month_label(label) THEN <<>>
        ELSE IF header_pattern_matches(header_values)
        THEN <<WeekBlock(Strip(StrOf(label_value)), start_col, end_col)>>
        ELSE <<>>

\* the loop "for merged in ws.merged_cells.ranges"
RECURSIVE MergedBlocks(_, _)
MergedBlocks(ws, ranges) ==
    IF ranges = <<>> THEN <<>>
    ELSE LET merged == Head(ranges)
         IN  (IF /\ merged.min_row = 10
                 /\ merged.max_row = 10
                 /\ merged.max_col - merged.min_col = 4
              THEN CandidateBlock(ws, merged.min_col, merged.max_col)
              ELSE <<>>)
             \o MergedBlocks(ws, Tail(ranges))

\* variant of FallbackBlocks that stops at the first block found
RECURSIVE FallbackBlocks_first(_, _, _)
FallbackBlocks_first(ws, start_col, max_col) ==
    IF start_col > max_col - 4 THEN <<>>
    ELSE IF CandidateBlock(ws, start_col, start_col + 4) # <<>>
         THEN CandidateBlock(ws, start_col, start_col + 4)
         ELSE FallbackBlocks_first(ws, start_col + 1, max_col)

\* the loop "for start_col in range(1, max_col - 3)" from start_col on
RECURSIVE FallbackBlocks(_, _, _)
FallbackBlocks(ws, start_col, max_col) ==
    IF start_col > max_col - 4 THEN <<>>
    ELSE CandidateBlock(ws, start_col, start_col + 4)
         \o FallbackBlocks(ws, start_col + 1, max_col)

\* variant of detect_week_blocks that accepts a merged range without testing
\* the row below it
detect_week_blocks_unchecked(ws) ==
    LET ranges == SelectSeq(ws.merged, LAMBDA m : m.min_row = 10 /\ m.max_row = 10)
    IN  [i \in DOMAIN ranges |->
            WeekBlock(Strip(StrOf(Cell(ws, 10, ranges[i].min_col))),
                      ranges[i].min_col, ranges[i].max_col)]

detect_week_blocks(ws) ==
    LET blocks == MergedBlocks(ws, ws.merged)
    IN  IF blocks # <<>> THEN blocks
        ELSE FallbackBlocks(ws, 1, max_column(ws))


(* ---- the sheets detect_week_blocks is applied to ---- *)

MaxScanCols == 7
MaxSegments == 3
FirstBlockCol == 4

TimesheetHeader == <<"T","i","m","e","s","h","e","e","t">>
Wk == <<"W","K">>
January == <<"J","a","n","u","a","r","y">>

\* the sub-headers a column of row 13 may carry
HeaderKinds == {None, PyStr(QDashTy), PyStr(ManSlashHour), PyStr(TimesheetHeader)}

\* sheets without merged ranges: any sub-header in each of the columns
\* 1..MaxScanCols, and a label in row 10 over every column or over none but
\* the first
ScanSheets ==
    {[title |-> "Report",
      merged |-> <<>>,
      cells |-> [p \in {<<13, c>> : c \in {k \in 1 .. MaxScanCols : heads[k] # None}}
                       \cup {<<10, c>> : c \in IF every THEN 1 .. MaxScanCols ELSE {1}}
                   |-> IF p[1] = 13 THEN heads[p[2]] ELSE PyStr(Wk \o NatDigits(p[2]))]] :
        heads \in [1 .. MaxScanCols -> HeaderKinds], every \in BOOLEAN}

\* segments of five columns each, from column FirstBlockCol on
SegmentKinds == {"week", "plain", "month", "broken", "tall", "wide"}

SegmentStart(i) == FirstBlockCol + 5 * (i - 1)

SegmentHeaders(kind) ==
    <<PyStr(QDashTy), PyStr(ManSlashHour), PyStr(Qty), PyStr(ManSpaceHour),
      IF kind = "broken" THEN PyStr(Abc) ELSE PyStr(TimesheetHeader)>>

SegmentLabel(kind, i) == IF kind = "month" THEN PyStr(January) ELSE PyStr(Wk \o NatDigits(i))

\* the merged range over the label of segment i: none for a plain segment,
\* two rows high for a tall one, six columns wide for a wide one
SegmentMerge(kind, i) ==
    CASE kind = "plain" -> <<>>
      [] kind = "tall"  -> <<MergedRange(10, 11, SegmentStart(i), SegmentStart(i) + 4)>>
      [] kind = "wide"  -> <<MergedRange(10, 10, SegmentStart(i) - 1, SegmentStart(i) + 4)>>
      [] OTHER          -> <<MergedRange(10, 10, SegmentStart(i), SegmentStart(i) + 4)>>

\* the sheet of the segments kinds, its merged ranges enumerated in the
\* order given by the permutation order of the segments
SegmentSheet(kinds, order) ==
    LET cols == FirstBlockCol .. (SegmentStart(Len(kinds)) + 4)
        seg(c) == ((c - FirstBlockCol) \div 5) + 1
        slot(c) == ((c - FirstBlockCol) % 5) + 1
        labelAt(i) == IF kinds[i] = "wide" THEN SegmentStart(i) - 1 ELSE SegmentStart(i)
    IN  [title |-> "Report",
         merged |-> Flatten([k \in DOMAIN order |-> SegmentMerge(kinds[order[k]], order[k])]),
         cells |-> [p \in {<<13, c>> : c \in cols} \cup {<<10, labelAt(i)>> : i \in DOMAIN kinds}
                      |-> IF p[1] = 13 THEN SegmentHeaders(kinds[seg(p[2])])[slot(p[2])]
                          ELSE LET i == CHOOSE j \in DOMAIN kinds : labelAt(j) = p[2]
                               IN  SegmentLabel(kinds[i], i)]]

SegmentSheets ==
    UNION {{SegmentSheet(kinds, order) : kinds \in [1 .. n -> SegmentKinds], order \in Perms(n)} :
              n \in 1 .. MaxSegments}

InitLayout ==
    /\ EngineOff
    /\ fn = ""
    /\ arg \in ScanSheets \cup SegmentSheets
    /\ out = <<>>

ApplyDetectWeekBlocks ==
    /\ fn = ""
    /\ fn' = "detect_week_blocks"
    /\ out' = detect_week_blocks(arg)
    /\ UNCHANGED <<arg, engineVars>>

NextLayout == ApplyDetectWeekBlocks

SpecLayout == InitLayout /\ [][NextLayout]_vars

\* C22: detect_week_blocks returns its blocks ordered by start column: each
\* block starts strictly right of the block before it, whether the blocks
\* come from merged ranges (in whatever order they are enumerated) or from
\* the linear scan.
BlocksOrderedByStartCol ==
    fn = "detect_week_blocks" =>
        \A i \in DOMAIN out : i > 1 => out[i].start_col > out[i - 1].start_col


\* the five columns from c on carry a label that is not blank and not a
\* month, and the five sub-headers in their order
WindowQualifies(ws, c) ==
    /\ normalize_text(Cell(ws, 10, c)) # <<>>
    /\ normalize_text(Cell(ws, 10, c)) \notin MONTHS
    /\ is_qty_header(Cell(ws, 13, c))
    /\ is_manhour_header(Cell(ws, 13, c + 1))
    /\ is_qty_header(Cell(ws, 13, c + 2))
    /\ is_manhour_header(Cell(ws, 13, c + 3))
    /\ is_timesheet_header(Cell(ws, 13, c + 4))

\* C23: every WeekBlock returned by detect_week_blocks has end_col =
\* start_col + 4, a row-10 label that is not blank and not a bare month
\* name, and row-13 sub-headers matching qty, manhour, qty, manhour,
\* timesheet in its five columns; a candidate with a failing slot is never
\* returned.
BlocksAreWellFormed ==
    fn = "detect_week_blocks" =>
        \A i \in DOMAIN out :
            /\ out[i].end_col = out[i].start_col + 4
            /\ WindowQualifies(arg, out[i].start_col)
            /\ out[i].label # <<>>

\* a block is returned while a merged candidate of the sheet is rejected
BlocksAreWellFormedWitness ==
    /\ fn = "detect_week_blocks"
    /\ out # <<>>
    /\ \E k \in DOMAIN arg.merged :
          \A i \in DOMAIN out : out[i].start_col # arg.merged[k].min_col

\* the merged ranges of row 10 that span five columns and qualify
QualifyingMerges(ws) ==
    {k \in DOMAIN ws.merged :
        /\ ws.merged[k].min_row = 10 /\ ws.merged[k].max_row = 10
        /\ ws.merged[k].max_col = ws.merged[k].min_col + 4
        /\ WindowQualifies(ws, ws.merged[k].min_col)}

StartCols(blocks) == {blocks[i].start_col : i \in DOMAIN blocks}

\* C24: the fallback scan of detect_week_blocks runs only when the merged
\* scan yields no block, tests every starting column from 1 to
\* max_column - 4, and emits pairwise non-overlapping blocks.
FallbackScan ==
    fn = "detect_week_blocks" =>
        /\ QualifyingMerges(arg) # {} =>
              StartCols(out) = {arg.merged[k].min_col : k \in QualifyingMerges(arg)}
        /\ QualifyingMerges(arg) = {} =>
              /\ StartCols(out) = {c \in 1 .. (max_column(arg) - 4) : WindowQualifies(arg, c)}
              /\ Len(out) = Cardinality(StartCols(out))
        /\ \A i, j \in DOMAIN out :
              i # j => \/ out[i].end_col < out[j].start_col
                       \/ out[j].end_col < out[i].start_col

\* the linear scan has found two blocks on a sheet without a qualifying
\* merged range
FallbackScanWitness ==
    /\ fn = "detect_week_blocks"
    /\ QualifyingMerges(arg) = {}
    /\ Len(out) >= 2


-----------------------------------------------------------------------------
(* LayoutScanner: the first data row (excel_layout.find_data_start_row) *)

MaxStartRows == 4

DescriptionUpper ==
    <<" ","D","E","S","C","R","I","P","T","I","O","N"," "," ","O","F"," ","W","O","R","K">>

\* what the key cell of a row may hold
StartKeys ==
    {None, PyStr(<<" ", " ">>), PyStr(DescriptionOfWork), PyStr(DescriptionUpper),
     PyStr(Steel), PyInt(0)}

\* sheets with key cells in the rows from the sub-header row 13 on
StartSheets ==
    UNION {{[title |-> "Report",
             cells |-> [p \in {<<DEFAULT_START_ROW - 2 + i, KEY_COL_IDX>> :
                                  i \in {k \in 1 .. n : keys[k] # None}}
                          |-> keys[p[1] - DEFAULT_START_ROW + 2]]] :
               keys \in [1 .. n -> StartKeys]} : n \in 0 .. (MaxStartRows + 1)}

InitStart ==
    /\ EngineOff
    /\ fn = ""
    /\ arg \in StartSheets
    /\ out = 0

ApplyFindDataStartRow ==
    /\ fn = ""
    /\ fn' = "find_data_start_row"
    /\ out' = find_data_start_row(arg)
    /\ UNCHANGED <<arg, engineVars>>

NextStart == ApplyFindDataStartRow

SpecStart == InitStart /\ [][NextStart]_vars

\* the key cell of the row is not blank after normalization and is not the
\* header label, case and runs of whitespace disregarded
IsDataKeyRow(ws, r) ==
    LET text == CollapseWs(MapLower(StrOf(Cell(ws, r, KEY_COL_IDX))))
    IN  /\ ~IsNone(Cell(ws, r, KEY_COL_IDX))
        /\ text # <<>>
        /\ text # <<"d","e","s","c","r","i","p","t","i","o","n"," ","o","f"," ","w","o","r","k">>

\* C25: find_data_start_row returns the smallest row r >= 14 whose key cell
\* in column 3 is non-blank after normalization and is not the header label
\* "description of work" (case and whitespace disregarded); without such a
\* row it returns the default start row 14; the scan is bounded by the sheet.
FirstDataRow ==
    fn = "find_data_start_row" =>
        LET rows == {r \in 14 .. max_row(arg) : IsDataKeyRow(arg, r)}
        IN  /\ rows # {} => out \in rows /\ \A r \in rows : out <= r
            /\ rows = {} => out = 14
            /\ out >= 14
            /\ out <= Max(14, max_row(arg))

\* the function has passed a header label in capitals and stopped at the row
\* below it
FirstDataRowWitness ==
    /\ fn = "find_data_start_row"
    /\ out > 14
    /\ Cell(arg, out - 1, KEY_COL_IDX) = PyStr(DescriptionUpper)
    /\ IsDataKeyRow(arg, out)


-----------------------------------------------------------------------------
(* excel_layout.extract_week_number *)

MaxLabelLen == 3

LabelAlphabet == {"W", "k", " ", "0", "7", "2"}

LabelExamples ==
    { <<"W","K","8">>,
      <<"W","e","e","k","l","y"," ","R","e","p","o","r","t"," ","N","o"," ","2">>,
      <<"Y","e","a","r"," ","2","0","2","4">>,
      <<"N","o"," ","n","u","m","b","e","r","s"," ","h","e","r","e">>,
      <<"W","K"," ","0","7"," ","o","f"," ","1","2">> }

LabelInputs == LabelExamples \cup StringsUpTo(LabelAlphabet, MaxLabelLen)

\* the leading digits of s
RECURSIVE DigitPrefix(_)
DigitPrefix(s) ==
    IF s = <<>> \/ Head(s) \notin DigitChars THEN <<>>
    ELSE <<Head(s)>> \o DigitPrefix(Tail(s))

\* re.search(r"(\d+)", label).group(1): the first maximal run of digits, <<>>
\* when there is no match
RECURSIVE FirstDigitRun(_)
FirstDigitRun(s) ==
    IF s = <<>> THEN <<>>
    ELSE IF Head(s) \in DigitChars THEN DigitPrefix(s)
    ELSE FirstDigitRun(Tail(s))

\* excel_layout.extract_week_number: the matched text, a str
extract_week_number(label) ==
    IF FirstDigitRun(label) = <<>> THEN None ELSE PyStr(FirstDigitRun(label))

InitWeek ==
    /\ EngineOff
    /\ fn = ""
    /\ arg \in LabelInputs
    /\ out = None

ApplyExtractWeekNumber ==
    /\ fn = ""
    /\ fn' = "extract_week_number"
    /\ out' = extract_week_number(arg)
    /\ UNCHANGED <<arg, engineVars>>

NextWeek == ApplyExtractWeekNumber

SpecWeek == InitWeek /\ [][NextWeek]_vars

\* C26: extract_week_number returns the number formed by the first maximal
\* run of decimal digits of the label ("WK8" gives 8, "Weekly Report No 2"
\* gives 2, "Year 2024" gives 2024) and None when the label has no digit.
WeekNumberOfLabel ==
    fn = "extract_week_number" =>
        IF \E i \in DOMAIN arg : arg[i] \in DigitChars
        THEN out = PyInt(NatOfDigits(FirstDigitRun(arg), 0))
        ELSE out = None


-----------------------------------------------------------------------------
(* Write conflicts *)

\* the target cells a Write diff is applied to
Destinations(diff) ==
    IF ~IsWrite(diff) THEN {}
    ELSE IF variant = "c2p"
    THEN IF IsNone(diff.src_val) THEN {}
         ELSE {<<diff.sheet_name, diff.row_idx_tgt, COL_QTY_IDX_TGT>>}
    ELSE {<<"", diff.row_idx_tgt, FieldCols(CostBlock)[f]>> :
             f \in {g \in 1 .. 3 : ~IsNone(SrcVals(diff)[g])}}

Reverse(seq) == [i \in DOMAIN seq |-> seq[Len(seq) + 1 - i]]

\* the target sheets after execute on ds, started from the sheets before
ExecutedFrom(sheets, ds) ==
    IF variant = "c2p" THEN C2P_execute(sheets, ds).targets
    ELSE <<R2C_execute(sheets[1], ds, build_batch_map(WeekPairs, <<>>)).target>>

\* C27: write conflicts: in the diff list of one analyze call of
\* ReportToCostAction or CostToPPCAction no target cell is the destination of
\* more than one Write diff, so the target after execute does not depend on
\* the order in which the diffs are applied.
NoWriteConflicts ==
    (variant \in {"r2c", "c2p"} /\ lastOp # "") =>
        /\ \A i, j \in DOMAIN diffs :
              i # j => Destinations(diffs[i]) \cap Destinations(diffs[j]) = {}
        /\ SameSheets(ExecutedFrom(SheetsBefore, diffs),
                      ExecutedFrom(SheetsBefore, Reverse(diffs)))


-----------------------------------------------------------------------------
(* Week pairing of render_action_1: the selected source labels are paired   *)
(* with target blocks, analyze runs on the pairs and execute on the map     *)
(* built from them.                                                          *)

WK1    == <<"W","K","1">>
WK2    == <<"W","K","2">>
WK01   == <<"W","K","0","1">>

\* tgt_week_map = {w.label: w for w in tgt_weeks}
RECURSIVE tgt_week_map(_, _)
tgt_week_map(tgt_weeks, acc) ==
    IF tgt_weeks = <<>> THEN acc
    ELSE Bind(DictPut(acc, Head(tgt_weeks).label, Head(tgt_weeks)),
              LAMBDA m : tgt_week_map(Tail(tgt_weeks), m))

\* int(re.search(r'\d+', label).group(0)), -1 when the label has no digit
LabelNumber(label) ==
    IF FirstDigitRun(label) = <<>> THEN -1 ELSE NatOfDigits(FirstDigitRun(label), 0)

\* the loose match: the first target block whose number is the label's
\* number; <<>> when there is none
LooseMatch(sl, tgt_weeks) ==
    LET hits == {i \in DOMAIN tgt_weeks :
                    LabelNumber(sl) # -1 /\ LabelNumber(tgt_weeks[i].label) = LabelNumber(sl)}
    IN  IF hits = {} THEN <<>> ELSE <<tgt_weeks[SetMin(hits)]>>

\* the pair of one selected label: s_blk is the first source block of that
\* label, t_blk the block of the exact map or of the loose match; <<>> when
\* the label goes to "missing"
pair_for_label(sl, src_weeks, tgt_weeks) ==
    LET s_blk == src_weeks[SetMin({i \in DOMAIN src_weeks : src_weeks[i].label = sl})]
        exact == tgt_week_map(tgt_weeks, <<>>)
        t_blk == IF DictHas(exact, sl) THEN <<DictGet(exact, sl)>> ELSE LooseMatch(sl, tgt_weeks)
    IN  IF t_blk = <<>> THEN <<>> ELSE << <<s_blk, t_blk[1]>> >>

\* week_pairs of the handler
match_weeks(selected_weeks, src_weeks, tgt_weeks) ==
    Flatten([i \in DOMAIN selected_weeks |->
                pair_for_label(selected_weeks[i], src_weeks, tgt_weeks)])

\* the uploads of the pairing sessions: a report with two week blocks in
\* H..L and M..Q, a cost-control sheet with two in M..Q and R..V
PairReportRows ==
    << (3 :> PyStr(Steel)) @@ (8 :> PyInt(100)) @@ (10 :> PyInt(50)) @@ (13 :> PyInt(7)),
       (3 :> PyStr(Cement)) @@ (12 :> PyInt(3)) @@ (15 :> PyInt(9)) >>
PairCostRows ==
    { (3 :> PyStr(Steel)) @@ (13 :> PyStr(FormulaA1)) @@ (15 :> PyInt(7)) @@ (18 :> PyInt(4)),
      (3 :> PyStr(Cement)) @@ (13 :> PyInt(1)) @@ (20 :> PyStr(FormulaA1)) }
PairReportSheets == {MakeSheet("Report", DEFAULT_START_ROW, PairReportRows)}
PairCostSheets ==
    {MakeSheet("Cost Control", DEFAULT_START_ROW, rows) : rows \in RowSeqs(PairCostRows, 2)}

\* block lists detect_week_blocks can return: blocks of distinct columns in
\* either order, labels free
BlockLists(labels, cols) ==
    {<<WeekBlock(l, c, c + 4)>> : l \in labels, c \in cols}
    \cup {<<WeekBlock(x[1], x[3], x[3] + 4), WeekBlock(x[2], x[4], x[4] + 4)>> :
             x \in {y \in labels \X labels \X cols \X cols : y[3] # y[4]}}

\* the multiselect: distinct options in the order they were picked
Selections(src_weeks) ==
    {<<src_weeks[i].label>> : i \in DOMAIN src_weeks}
    \cup {<<src_weeks[x[1]].label, src_weeks[x[2]].label>> :
             x \in {y \in (DOMAIN src_weeks) \X (DOMAIN src_weeks) : y[1] # y[2]}}

PairRequests ==
    UNION {{[src_weeks |-> sw, tgt_weeks |-> tw, selected_weeks |-> sel] :
               sel \in Selections(sw),
               tw \in {<<>>} \cup BlockLists({WK1, WK2, WK01}, {CostBlock.start_col, CostBlock.end_col + 1})} :
           sw \in BlockLists({WK1, WK2}, {ReportBlock.start_col, ReportBlock.end_col + 1})}

InitPairs ==
    /\ variant = "r2c"
    /\ src \in PairReportSheets
    /\ tgts \in {<<ws>> : ws \in PairCostSheets}
    /\ cfg \in {[NoSettings EXCEPT !.overwrite_formulas = o] : o \in BOOLEAN}
    /\ diffs = <<>>
    /\ summary = NoSummary
    /\ phase = "Idle"
    /\ pre = Snapshot(src, tgts, <<>>, NoSummary, "Idle")
    /\ lastOp = ""
    /\ fn = "select"
    /\ arg \in PairRequests
    /\ out = <<>>

\* "if selected_weeks:" ... the loop that fills week_pairs and missing
PairsMatch ==
    /\ fn = "select"
    /\ out' = match_weeks(arg.selected_weeks, arg.src_weeks, arg.tgt_weeks)
    /\ fn' = "paired"
    /\ UNCHANGED <<engineVars, arg>>

\* "if week_pairs:" ... diffs = action.analyze()
PairsAnalyze ==
    /\ fn = "paired"
    /\ out # <<>>
    /\ diffs' = R2C_analyze(src, tgts[1], out, cfg)
    /\ phase' = "Analyzed"
    /\ pre' = Here
    /\ lastOp' = "analyze"
    /\ fn' = "pairs_analyzed"
    /\ UNCHANGED <<variant, src, tgts, cfg, summary, arg, out>>

\* batch_map[s_blk.label] = t_blk ...; count = action.execute(diffs, batch_map)
PairsExecute ==
    /\ fn = "pairs_analyzed"
    /\ \E res \in {R2C_execute(tgts[1], diffs, build_batch_map(out, <<>>))} :
          /\ tgts' = <<res.target>>
          /\ summary' = [NoSummary EXCEPT !.written_cells = res.count]
    /\ phase' = "Executed"
    /\ pre' = Here
    /\ lastOp' = "execute"
    /\ fn' = "pairs_transferred"
    /\ UNCHANGED <<variant, src, cfg, diffs, arg, out>>

NextPairs == PairsMatch \/ PairsAnalyze \/ PairsExecute

SpecPairs == InitPairs /\ [][NextPairs]_vars

\* the diffs analyze creates for the pairs 1 .. k
DiffsUpTo(k) == R2C_analyze(src, pre.tgts[1], SubSeq(out, 1, k), cfg)

\* the week pair whose loop pass created diff i
PairOfDiff(i) == SetMin({k \in DOMAIN out : i <= Len(DiffsUpTo(k))})

\* C28: column consistency between the two phases: with the label -> block
\* map the shell builds from the same week_pairs, execute writes every Write
\* diff into the planned/actual/timesheet columns of the target block whose
\* cells analyze read and formula-checked when it created the diff, and
\* changes no other cell.
ColumnConsistency ==
    fn = "pairs_transferred" =>
        LET batch_map == build_batch_map(out, <<>>)
        IN  /\ \A i \in DOMAIN diffs :
                  LET d == diffs[i]
                      t == out[PairOfDiff(i)][2]
                  IN  /\ \A f \in 1 .. 3 :
                             TgtVals(d)[f] = Cell(pre.tgts[1], d.row_idx_tgt, FieldCols(t)[f])
                      /\ IsWrite(d) =>
                            /\ DictHas(batch_map, d.week_label)
                            /\ DictGet(batch_map, d.week_label) = t
                            /\ SameCells(R2C_execute(pre.tgts[1], <<d>>, batch_map).target,
                                         R2C_write_diff(pre.tgts[1], d, t))
            /\ \A p \in DOMAIN tgts[1].cells \cup DOMAIN pre.tgts[1].cells :
                  Cell(tgts[1], p[1], p[2]) # Cell(pre.tgts[1], p[1], p[2]) =>
                      \E i \in DOMAIN diffs :
                          /\ IsWrite(diffs[i])
                          /\ p[1] = diffs[i].row_idx_tgt
                          /\ p[2] \in Range(FieldCols(out[PairOfDiff(i)][2]))

\* two pairs, one of them found by the loose number match, and a write of the
\* second pair's diff into the second target block
ColumnConsistencyWitness ==
    /\ fn = "pairs_transferred"
    /\ Len(out) = 2
    /\ out[1][2] # out[2][2]
    /\ \E k \in DOMAIN out : out[k][1].label # out[k][2].label
    /\ \E i \in DOMAIN diffs :
          /\ IsWrite(diffs[i])
          /\ PairOfDiff(i) = 2
          /\ \E f \in 1 .. 3 :
                Cell(tgts[1], diffs[i].row_idx_tgt, FieldCols(out[2][2])[f])
                    # Cell(pre.tgts[1], diffs[i].row_idx_tgt, FieldCols(out[2][2])[f])

-----------------------------------------------------------------------------
(* Repeated application *)

\* C29: idempotence of execute: applying ReportToCostAction.execute or
\* CostToPPCAction.execute a second time with the same diff list, or calling
\* transfer_week a second time with the same arguments on distinct source and
\* target sheets, leaves every target cell with the value it had after the
\* first application and returns the same count.
ExecuteIsIdempotent ==
    /\ (variant = "r2c" /\ lastOp = "execute") =>
          \E again \in {R2C_execute(tgts[1], diffs, build_batch_map(WeekPairs, <<>>))} :
              /\ SameCells(again.target, tgts[1])
              /\ again.count = summary.written_cells
    /\ (variant = "c2p" /\ lastOp = "execute") =>
          \E again \in {C2P_execute(tgts, diffs)} :
              /\ SameSheets(again.targets, tgts)
              /\ again.count = summary.written_cells
    /\ (variant = "legacy" /\ lastOp = "transfer_week") =>
          \E again \in {transfer_week(src, tgts[1], ReportBlock, CostBlock, cfg)} :
              /\ SameCells(again.target, tgts[1])
              /\ again.written_cells = summary.written_cells

\* a second transfer_week call in a row that wrote cells, the target as the
\* first call left it
ExecuteIsIdempotentWitness ==
    /\ variant = "legacy"
    /\ lastOp = "transfer_week"
    /\ pre.phase = "Executed"
    /\ summary.written_cells > 0
    /\ SameSheets(tgts, pre.tgts)

-----------------------------------------------------------------------------
(* Preview and apply of the older pipeline *)

\* the normalized keys of the source rows from the data start row down
DistinctSourceKeys ==
    {normalize_text(Cell(pre.src, r, KEY_COL_IDX)) :
        r \in find_data_start_row(pre.src) .. max_row(pre.src)} \ {<<>>}

\* C30: preview agrees with apply in the older pipeline: for the same sheets,
\* blocks and settings, analyze_transfer on the unmutated target and
\* transfer_week give diff lists of the same length with the same key, source
\* values, action and reason at every position, and equal matched_keys,
\* missing_target_keys, duplicate_source_keys, duplicate_target_keys and
\* skipped_formula_cells, where matched_keys + missing_target_keys is the
\* number of distinct source keys.
PreviewAgreesWithApply ==
    (variant = "legacy" /\ lastOp = "transfer_week") =>
        \E preview \in {analyze_transfer(pre.src, pre.tgts[1], ReportBlock, CostBlock, cfg)} :
            /\ Len(preview.diff_rows) = Len(diffs)
            /\ \A i \in DOMAIN diffs :
                  /\ preview.diff_rows[i].key = diffs[i].key
                  /\ LegacySrcVals(preview.diff_rows[i]) = LegacySrcVals(diffs[i])
                  /\ preview.diff_rows[i].action = diffs[i].action
                  /\ preview.diff_rows[i].reason = diffs[i].reason
            /\ preview.matched_keys = summary.matched_keys
            /\ preview.missing_target_keys = summary.missing_target_keys
            /\ preview.duplicate_source_keys = summary.duplicate_source_keys
            /\ preview.duplicate_target_keys = summary.duplicate_target_keys
            /\ preview.skipped_formula_cells = summary.skipped_formula_cells
            /\ summary.matched_keys + summary.missing_target_keys
                   = Cardinality(DistinctSourceKeys)

\* a transfer that wrote cells, held one back for a formula and showed every
\* row of a duplicated target key
PreviewAgreesWithApplyWitness ==
    /\ variant = "legacy"
    /\ lastOp = "transfer_week"
    /\ ~SameSheets(tgts, pre.tgts)
    /\ summary.skipped_formula_cells > 0
    /\ summary.duplicate_target_keys > 0
    /\ cfg.write_all_duplicates
    /\ Len(diffs) > Cardinality(DistinctSourceKeys)

=============================================================================
